---------------------------- MODULE Spec2Model ----------------------------
(***************************************************************************)
(* A model of the ingestion core of the CS2 arbitrage backend:             *)
(*   - the exchange-rate cache of internal/scraper/exchange_rate.go        *)
(*     (GetUSDTtoIRRRate, fetchUSDTtoIRRRate, GetIRRtoUSDRate) called by   *)
(*     several goroutines through a sync.RWMutex;                          *)
(*   - the paginated ingestion loop of internal/scraper/csgoskin.go        *)
(*     (FetchItems, fetchItemsPage, processItem);                          *)
(*   - the conversion functions of csgoskin.go (convertToSkin,             *)
(*     convertToItem, parseCategory) and GetWearCategory of the models;    *)
(*   - the store of internal/models/marketplace.go (InsertSkin,            *)
(*     InsertItem) as processItem writes to it, and the arbitrage query    *)
(*     findArbitrageOpportunities of the api package.                      *)
(* Time is counted in minutes.  Rates are integers (Rial per USDT); an     *)
(* inverse rate is kept as the fraction num/den.                           *)
(***************************************************************************)
EXTENDS Integers, Sequences, FiniteSets, TLC

(***************************************************************************)
(* Bounds of the model.                                                    *)
(***************************************************************************)
NumCallers == 2
MaxCalls == 3
MaxClock == 60
MaxPageLen == 2
MaxPages == 3
\* The safety limit of csgoskin.go (MaxItemsToFetch = 50000), scaled down so
\* that a run of a few short pages reaches it.
MaxItemsToFetch == 3

Callers == 1..NumCallers
NoCaller == 0

\* Steps by which the clock advances, in minutes.
TickSteps == {30, 60}

\* Prices (Toman per USDT) the quote source may report for the USDT symbol.
Prices == {-1, 0, 10000, 20000}

\* The outcomes of one request to the quote source: an error (transport,
\* status, body not decodable, symbol missing) or a price for USDT.
FetchOutcomes == {[ok |-> FALSE, price |-> 0]} \cup {[ok |-> TRUE, price |-> p] : p \in Prices}

(***************************************************************************)
(* Program constants of exchange_rate.go.                                  *)
(***************************************************************************)
TomanToRialRate == 10
DefaultUSDTtoIRRRate == 872000 * TomanToRialRate
ExchangeRateRefreshInterval == 60

\* The zero time.Time of lastFetchTime: far enough in the past for
\* time.Since to exceed any refresh interval.
ZeroTime == 0 - ExchangeRateRefreshInterval

VARIABLES
    \* exchange_rate.go package state
    cachedUSDTtoIRRRate,    \* the cached rate, 0 before the first update
    lastFetchTime,          \* time of the last cache update
    rwReaders,              \* goroutines holding cachedUSDTtoIRRRateMutex for reading
    rwWriter,               \* goroutine that called Lock (pending or holding), or NoCaller
    now,                    \* the wall clock
    \* the calling goroutines
    pc,                     \* position of each caller
    call,                   \* record of each caller's current / last call
    calls,                  \* number of calls made so far
    \* history of the cache
    everCached,             \* a fetch has updated the cache at least once
    lastSuccessAt,          \* completion time of the last successful fetch
    window                  \* the current stale window: id, fetches started, fetches cached

rateVars == <<cachedUSDTtoIRRRate, lastFetchTime, rwReaders, rwWriter, now,
              pc, call, calls, everCached, lastSuccessAt, window>>

VARIABLES
    \* FetchItems: the locals of one run
    lastItemID,             \* the cursor sent with the next page request
    totalItemsProcessed,    \* records processed without error
    totalPages,             \* index of the page being fetched
    runPc,                  \* "request", "process", "check", "done", "failed"
    csgoItems,              \* the records of the page being processed
    newLastItemID,          \* the cursor fetchItemsPage returned with that page
    idx,                    \* position of the range loop in csgoItems
    runErr,                 \* page index named by the returned error, 0 if none
    \* history of the run
    hist

ingestVars == <<lastItemID, totalItemsProcessed, totalPages, runPc, csgoItems,
                newLastItemID, idx, runErr, hist>>

VARIABLES
    \* one application of a conversion function of the scraper or the models
    convIn,                 \* the function applied and its arguments
    convOut                 \* its results, NoConvOut before it has run

convVars == <<convIn, convOut>>

VARIABLES
    \* the store (internal/models/marketplace.go)
    skinsTbl,               \* the rows of table skins
    itemsTbl,               \* the rows of table items
    marketplacesTbl,           \* the rows of table marketplaces
    dbNow,                  \* the store's clock, NOW()
    nextID,                 \* the next id gen_random_uuid() gives a new row
    \* the ingestion runs writing to the store
    run,                    \* each run's position in processItem, its record and skinID
    scrapers,               \* each run's CSGOSkinScraper: whether it was made, its marketplaceID
    constructions,          \* number of NewCSGOSkinScraper calls made so far
    processCalls,           \* number of processItem calls made so far
    \* history of the store
    firstSkinID,            \* per stable name, the id InsertSkin returned first
    seen,                   \* per listing, the rows of its last two successful processItem calls
    committed,              \* per listing id, the values of the last InsertItem that returned an id
    \* the arbitrage query
    query                   \* the last findArbitrageOpportunities call and its result

storeVars == <<skinsTbl, itemsTbl, marketplacesTbl, dbNow, nextID, run, scrapers, constructions, processCalls,
               firstSkinID, seen, committed, query>>

vars == <<rateVars, ingestVars, convVars, storeVars>>

\* What the steps of one component leave alone.
rateFrame == <<ingestVars, convVars, storeVars>>
ingestFrame == <<rateVars, convVars, storeVars>>
convFrame == <<rateVars, ingestVars, storeVars>>
storeFrame == <<rateVars, ingestVars, convVars>>

(***************************************************************************)
(* Pure helpers.                                                           *)
(***************************************************************************)
\* time.Since(t) at clock value clk.
Since(t, clk) == clk - t

\* The staleness test of GetUSDTtoIRRRate (lines 53 and 65), preceded by
\* the variant that still serves a rate whose age equals the interval.
IsFresh_Le(rate, last, clk) == rate > 0 /\ Since(last, clk) <= ExchangeRateRefreshInterval
IsFresh(rate, last, clk) == rate > 0 /\ Since(last, clk) < ExchangeRateRefreshInterval

CacheFresh == IsFresh(cachedUSDTtoIRRRate, lastFetchTime, now)

\* fetchUSDTtoIRRRate's result for a price found in the response.
PriceInRial(price) == price * TomanToRialRate

\* What GetUSDTtoIRRRate returns when the fetch failed (lines 70-77),
\* preceded by the variant that forgets the cached rate.
RateOnFetchError_Default(cached) == DefaultUSDTtoIRRRate
RateOnFetchError(cached) == IF cached > 0 THEN cached ELSE DefaultUSDTtoIRRRate

\* The cached rate after a fetch that failed (lines 70-77 assign nothing),
\* preceded by the variant that stores the rate it returns.
CacheOnFetchError_StoreReturned(cached) == RateOnFetchError(cached)
CacheOnFetchError(cached) == cached

\* GetIRRtoUSDRate (lines 130-136): 1.0 / rate as the fraction num/den.
\* A zero denominator stands for the float division 1.0/0.  Preceded by the
\* variant without the guard of line 132.
GetIRRtoUSDRateOf_NoGuard(usdtToIRR) == [num |-> 1, den |-> usdtToIRR]
GetIRRtoUSDRateOf(usdtToIRR) ==
    IF usdtToIRR <= 0
        THEN [num |-> 1, den |-> DefaultUSDTtoIRRRate]
        ELSE [num |-> 1, den |-> usdtToIRR]

\* The record kept of a caller's call: which function it called, what its
\* two staleness checks saw (judged by the history of successful fetches),
\* whether it took the write lock and fetched, the fetch's outcome, the
\* cache as it was when the fetch started, whether a failed fetch left the
\* two cache variables as they were and the cache stale, and what the call
\* returned.
NoCall == [fn |-> "none", check1 |-> "none", check2 |-> "none", seen |-> 0,
           tookLock |-> FALSE, fetched |-> FALSE, outcome |-> "none",
           prior |-> 0, hadRate |-> FALSE,
           entryWin |-> 0, exitWin |-> 0, afterCached |-> FALSE,
           keptCache |-> FALSE, staleAfter |-> FALSE,
           ret |-> 0, inv |-> [num |-> 0, den |-> 1],
           handler |-> "none",        \* the lookup of handleExchangeRate this call is
           usdtToIRR |-> 0]           \* and what its first lookup returned

\* The record kept of the current stale window: the fetches started in it,
\* the fetches that left a positive rate in the cache, that rate, and the
\* number of fetches started when it was cached.
NoWindow(id) == [id |-> id, fetches |-> 0, cached |-> 0, rate |-> 0, fetchesAtCached |-> 0]

\* Freshness judged from the history: a positive rate is cached and less
\* than the refresh interval has passed since the last successful fetch
\* completed.
HistFresh ==
    /\ cachedUSDTtoIRRRate > 0
    /\ everCached
    /\ now - lastSuccessAt < ExchangeRateRefreshInterval

HistVerdict == IF HistFresh THEN "fresh" ELSE "stale"

(***************************************************************************)
(* Initial state: the package variables of exchange_rate.go at their zero  *)
(* values, the mutex free, no call made.                                   *)
(***************************************************************************)
RateInit ==
    /\ cachedUSDTtoIRRRate = 0
    /\ lastFetchTime = ZeroTime
    /\ rwReaders = {}
    /\ rwWriter = NoCaller
    /\ now = 0
    /\ pc = [p \in Callers |-> "idle"]
    /\ call = [p \in Callers |-> NoCall]
    /\ calls = 0
    /\ everCached = FALSE
    /\ lastSuccessAt = 0
    /\ window = NoWindow(0)

(***************************************************************************)
(* sync.RWMutex as GetUSDTtoIRRRate uses it.  Lock first excludes other    *)
(* writers and new readers, then waits for the active readers to leave.    *)
(***************************************************************************)
MayRLock == rwWriter = NoCaller

MayAnnounceLock == rwWriter = NoCaller

\* Lock returns once the active readers have left; preceded by the variant
\* that does not wait for them.
WriteLockGranted_Shared(p) == rwWriter = p
WriteLockGranted(p) == rwWriter = p /\ rwReaders = {}

\* RUnlock (line 58 on the stale path, line 55 on the fresh one): the caller
\* leaves the readers before it asks for the write lock.  Preceded by the
\* variant that keeps the read lock while it asks.
RUnlock_Held(readers, p) == readers
RUnlock(readers, p) == readers \ {p}

\* The double check of line 65, made under the write lock; preceded by the
\* variant that fetches without checking again.
DoubleCheckFresh_Skipped == FALSE
DoubleCheckFresh == CacheFresh

(***************************************************************************)
(* The callers.  fn is "usdt" for a call of GetUSDTtoIRRRate and "irr" for *)
(* a call of GetIRRtoUSDRate, which calls GetUSDTtoIRRRate first.          *)
(***************************************************************************)
\* The call returns rate r: GetUSDTtoIRRRate hands r to its caller, and
\* GetIRRtoUSDRate turns it into the inverse rate.
Returned(p, c, r, win) ==
    [c EXCEPT !.ret = r,
              !.inv = IF c.fn = "irr" THEN GetIRRtoUSDRateOf(r) ELSE c.inv,
              !.exitWin = win.id,
              !.afterCached = win.cached >= 1]

Call(p, f) ==
    /\ pc[p] \in {"idle", "done"}
    /\ call[p].handler # "first"
    /\ calls < MaxCalls
    /\ pc' = [pc EXCEPT ![p] = "rlock"]
    /\ call' = [call EXCEPT ![p] = [NoCall EXCEPT !.fn = f]]
    /\ calls' = calls + 1
    /\ UNCHANGED <<cachedUSDTtoIRRRate, lastFetchTime, rwReaders, rwWriter, now,
                   everCached, lastSuccessAt, window>>
    /\ UNCHANGED rateFrame

\* line 51: RLock
RLock(p) ==
    /\ pc[p] = "rlock"
    /\ MayRLock
    /\ rwReaders' = rwReaders \cup {p}
    /\ pc' = [pc EXCEPT ![p] = "check"]
    /\ UNCHANGED <<cachedUSDTtoIRRRate, lastFetchTime, rwWriter, now, call, calls,
                   everCached, lastSuccessAt, window>>
    /\ UNCHANGED rateFrame

\* lines 53-58: the first staleness check, then RUnlock
FirstCheck(p) ==
    /\ pc[p] = "check"
    /\ rwReaders' = RUnlock(rwReaders, p)
    /\ LET c == [call[p] EXCEPT !.check1 = HistVerdict,
                                !.seen = cachedUSDTtoIRRRate,
                                !.entryWin = window.id]
       IN IF CacheFresh
             THEN /\ call' = [call EXCEPT ![p] = Returned(p, c, cachedUSDTtoIRRRate, window)]
                  /\ pc' = [pc EXCEPT ![p] = "done"]
             ELSE /\ call' = [call EXCEPT ![p] = c]
                  /\ pc' = [pc EXCEPT ![p] = "lock"]
    /\ UNCHANGED <<cachedUSDTtoIRRRate, lastFetchTime, rwWriter, now, calls,
                   everCached, lastSuccessAt, window>>
    /\ UNCHANGED rateFrame

\* line 61: Lock, first half: exclude other writers and new readers
Lock(p) ==
    /\ pc[p] = "lock"
    /\ MayAnnounceLock
    /\ rwWriter' = p
    /\ pc' = [pc EXCEPT ![p] = "lockwait"]
    /\ UNCHANGED <<cachedUSDTtoIRRRate, lastFetchTime, rwReaders, now, call, calls,
                   everCached, lastSuccessAt, window>>
    /\ UNCHANGED rateFrame

\* line 61: Lock, second half: the active readers have left
LockAcquired(p) ==
    /\ pc[p] = "lockwait"
    /\ WriteLockGranted(p)
    /\ pc' = [pc EXCEPT ![p] = "recheck"]
    /\ call' = [call EXCEPT ![p].tookLock = TRUE]
    /\ UNCHANGED <<cachedUSDTtoIRRRate, lastFetchTime, rwReaders, rwWriter, now, calls,
                   everCached, lastSuccessAt, window>>
    /\ UNCHANGED rateFrame

\* lines 65-69: the double check; a stale cache starts fetchUSDTtoIRRRate
Recheck(p) ==
    /\ pc[p] = "recheck"
    /\ LET c == [call[p] EXCEPT !.check2 = HistVerdict, !.seen = cachedUSDTtoIRRRate]
       IN IF DoubleCheckFresh
             THEN /\ call' = [call EXCEPT ![p] = Returned(p, c, cachedUSDTtoIRRRate, window)]
                  /\ pc' = [pc EXCEPT ![p] = "done"]
                  /\ rwWriter' = NoCaller
                  /\ window' = window
             ELSE /\ call' = [call EXCEPT ![p] = [c EXCEPT !.fetched = TRUE,
                                                          !.prior = cachedUSDTtoIRRRate,
                                                          !.hadRate = everCached]]
                  /\ pc' = [pc EXCEPT ![p] = "fetching"]
                  /\ rwWriter' = rwWriter
                  /\ window' = [window EXCEPT !.fetches = @ + 1]
    /\ UNCHANGED <<cachedUSDTtoIRRRate, lastFetchTime, rwReaders, now, calls,
                   everCached, lastSuccessAt>>
    /\ UNCHANGED rateFrame

\* lines 69-85: fetchUSDTtoIRRRate returns with outcome o; the deferred
\* Unlock runs as the function returns
FetchReturn(p, o) ==
    /\ pc[p] = "fetching"
    /\ pc' = [pc EXCEPT ![p] = "done"]
    /\ rwWriter' = NoCaller
    /\ IF ~o.ok
          THEN /\ cachedUSDTtoIRRRate' = CacheOnFetchError(cachedUSDTtoIRRRate)
               /\ UNCHANGED <<lastFetchTime, everCached, lastSuccessAt, window>>
               /\ call' = [call EXCEPT ![p] =
                     Returned(p, [call[p] EXCEPT
                                     !.outcome = "error",
                                     !.keptCache = /\ cachedUSDTtoIRRRate' = cachedUSDTtoIRRRate
                                                   /\ lastFetchTime' = lastFetchTime,
                                     !.staleAfter = ~IsFresh(cachedUSDTtoIRRRate', lastFetchTime', now)],
                              RateOnFetchError(cachedUSDTtoIRRRate), window)]
          ELSE LET rate == PriceInRial(o.price)
                   win == IF rate > 0
                             THEN [window EXCEPT !.cached = @ + 1, !.rate = rate,
                                                 !.fetchesAtCached = window.fetches]
                             ELSE window
               IN /\ cachedUSDTtoIRRRate' = rate
                  /\ lastFetchTime' = now
                  /\ everCached' = TRUE
                  /\ lastSuccessAt' = now
                  /\ window' = win
                  /\ call' = [call EXCEPT ![p] =
                        Returned(p, [call[p] EXCEPT !.outcome = "ok"], rate, win)]
    /\ UNCHANGED <<rwReaders, now, calls>>
    /\ UNCHANGED rateFrame

\* Time passes.  A cache that was fresh and is stale after the step opens a
\* new stale window.
Tick(d) ==
    /\ now + d <= MaxClock
    /\ now' = now + d
    /\ window' = IF CacheFresh /\ ~IsFresh(cachedUSDTtoIRRRate, lastFetchTime, now + d)
                    THEN NoWindow(window.id + 1)
                    ELSE window
    /\ UNCHANGED <<cachedUSDTtoIRRRate, lastFetchTime, rwReaders, rwWriter,
                   pc, call, calls, everCached, lastSuccessAt>>
    /\ UNCHANGED rateFrame

\* handleExchangeRate (part_001 lines 91-105) run by p: its first lookup,
\* GetUSDTtoIRRRate (line 92).
HandleExchangeRateFirst(p) ==
    /\ pc[p] \in {"idle", "done"}
    /\ call[p].handler # "first"
    /\ calls < MaxCalls
    /\ pc' = [pc EXCEPT ![p] = "rlock"]
    /\ call' = [call EXCEPT ![p] = [NoCall EXCEPT !.fn = "usdt", !.handler = "first"]]
    /\ calls' = calls + 1
    /\ UNCHANGED <<cachedUSDTtoIRRRate, lastFetchTime, rwReaders, rwWriter, now,
                   everCached, lastSuccessAt, window>>
    /\ UNCHANGED rateFrame

\* Its second lookup, GetIRRtoUSDRate (line 93), made once the first has
\* returned usdtToIRR.  The response (lines 95-100) holds usdtToIRR and
\* what the second lookup returns.
HandleExchangeRateSecond(p) ==
    /\ pc[p] = "done"
    /\ call[p].handler = "first"
    /\ calls < MaxCalls
    /\ pc' = [pc EXCEPT ![p] = "rlock"]
    /\ call' = [call EXCEPT ![p] = [NoCall EXCEPT !.fn = "irr", !.handler = "second",
                                                  !.usdtToIRR = call[p].ret]]
    /\ calls' = calls + 1
    /\ UNCHANGED <<cachedUSDTtoIRRRate, lastFetchTime, rwReaders, rwWriter, now,
                   everCached, lastSuccessAt, window>>
    /\ UNCHANGED rateFrame

RateNext ==
    \/ \E p \in Callers, f \in {"usdt", "irr"} : Call(p, f)
    \/ \E p \in Callers : RLock(p)
    \/ \E p \in Callers : FirstCheck(p)
    \/ \E p \in Callers : Lock(p)
    \/ \E p \in Callers : LockAcquired(p)
    \/ \E p \in Callers : Recheck(p)
    \/ \E p \in Callers, o \in FetchOutcomes : FetchReturn(p, o)
    \/ \E d \in TickSteps : Tick(d)

\* The callers of the rate cache with handleExchangeRate among them.  The
\* callers are alike, so the requests to /api/exchange-rate are followed on
\* one of them; the others make any other call.
ExchangeRateCaller == CHOOSE p \in Callers : TRUE

ExchangeNext ==
    \/ HandleExchangeRateFirst(ExchangeRateCaller)
    \/ HandleExchangeRateSecond(ExchangeRateCaller)
    \/ RateNext

(***************************************************************************)
(* Claims about the rate cache (checked under RateSpec).                   *)
(***************************************************************************)
HasReturned(p) == pc[p] = "done"

\* A caller of the current stale window: its first check found the cache
\* stale in this window, and it returned in this window.
InWindow(p) ==
    /\ HasReturned(p)
    /\ call[p].check1 = "stale"
    /\ call[p].entryWin = window.id
    /\ call[p].exitWin = window.id

\* C1 as stated: in one stale window the fetch is invoked exactly once
\* whatever its outcome, and all callers of the window return the same rate.
C1_OneFetchWhateverOutcome ==
    /\ window.fetches <= 1
    /\ \A p \in Callers : InWindow(p) => window.fetches = 1
    /\ \A p, q \in Callers : InWindow(p) /\ InWindow(q) => call[p].ret = call[q].ret

\* C1 amended: in one stale window at most one fetch leaves a positive rate
\* in the cache, no fetch is started in the window after that one, and every
\* caller of the window that returns after it returns that rate.  (A fetch
\* that fails or yields no positive rate leaves the window stale, and the
\* next caller fetches again.)
C1_OneCachingFetchPerWindow ==
    /\ window.cached <= 1
    /\ window.cached = 1 => window.fetches = window.fetchesAtCached
    /\ \A p \in Callers :
           InWindow(p) /\ call[p].afterCached => call[p].ret = window.rate
    /\ \A p \in Callers : call[p].fetched => call[p].check2 = "stale"

\* Two callers of one stale window: one fetched and cached a rate, the other
\* took the write lock after it and returned without fetching.
C1_Witness ==
    \E p, q \in Callers :
        /\ p # q
        /\ InWindow(p) /\ InWindow(q)
        /\ call[p].fetched /\ call[p].outcome = "ok" /\ call[p].ret > 0
        /\ call[q].tookLock /\ ~call[q].fetched /\ call[q].afterCached
        /\ window.fetches = 1

\* C2: at most one fetch is in progress, and a caller that is between its
\* double check and the return of its fetch holds the write lock alone.
C2_OneFetchUnderWriteLock ==
    /\ Cardinality({p \in Callers : pc[p] = "fetching"}) <= 1
    /\ \A p \in Callers :
           pc[p] \in {"recheck", "fetching"} =>
               /\ rwWriter = p
               /\ rwReaders = {}
               /\ \A q \in Callers \ {p} : pc[q] \notin {"check", "recheck", "fetching"}

\* A fetch is in progress while another caller waits for a lock.
C2_Witness ==
    \E p, q \in Callers :
        /\ p # q
        /\ pc[p] = "fetching"
        /\ pc[q] \in {"rlock", "lock"}

\* C3: a call whose fetch failed returns the default when no rate was ever
\* cached, and the cached rate when a positive rate is cached.
C3_FallbackOnFetchError ==
    \A p \in Callers :
        HasReturned(p) /\ call[p].outcome = "error" =>
            /\ ~call[p].hadRate => call[p].ret = DefaultUSDTtoIRRRate
            /\ call[p].prior > 0 => call[p].ret = call[p].prior
            /\ call[p].ret \in Int

\* One call failed with nothing cached, another failed with a rate cached.
C3_Witness ==
    \E p, q \in Callers :
        /\ HasReturned(p) /\ call[p].outcome = "error" /\ ~call[p].hadRate
        /\ HasReturned(q) /\ call[q].outcome = "error" /\ call[q].prior > 0
        /\ call[q].ret # DefaultUSDTtoIRRRate

\* C4 as stated: every returned rate is strictly positive.
C4_ReturnedRatePositive ==
    \A p \in Callers : HasReturned(p) => call[p].ret > 0

\* C5: a call whose first check finds a positive rate younger than the
\* refresh interval (counted from the completion of the last successful
\* fetch) returns that rate without the write lock and without a fetch; a
\* call that finds the cache stale goes for the write lock, and fetches
\* when its double check finds the cache stale as well.
C5_Freshness ==
    \A p \in Callers :
        /\ call[p].check1 = "fresh" =>
               /\ HasReturned(p)
               /\ call[p].ret = call[p].seen
               /\ ~call[p].tookLock
               /\ ~call[p].fetched
        /\ call[p].check1 = "stale" => pc[p] \in {"lock", "lockwait"} \/ call[p].tookLock
        /\ call[p].check2 = "stale" => call[p].fetched
        /\ call[p].check2 = "fresh" =>
               /\ HasReturned(p)
               /\ call[p].ret = call[p].seen
               /\ ~call[p].fetched

\* One call was served from the fresh cache; another found a positive rate
\* that had expired and fetched.
C5_Witness ==
    \E p, q \in Callers :
        /\ call[p].check1 = "fresh" /\ HasReturned(p) /\ call[p].ret > 0
        /\ call[q].check2 = "stale" /\ call[q].fetched /\ call[q].prior > 0

C26_FailedFetchLeavesCache ==
    /\ \A p \in Callers :
           /\ pc[p] = "fetching" => cachedUSDTtoIRRRate = call[p].prior
           /\ call[p].outcome = "error" =>
                  /\ HasReturned(p)
                  /\ call[p].keptCache
                  /\ call[p].staleAfter
                  /\ call[p].ret = RateOnFetchError(call[p].prior)
    /\ ~everCached => cachedUSDTtoIRRRate = 0 /\ lastFetchTime = ZeroTime

\* A fetch failed with nothing cached and its caller returned the default;
\* nothing is cached after it and another caller is fetching again.
C26_Witness ==
    \E p, q \in Callers :
        /\ p # q
        /\ HasReturned(p) /\ call[p].outcome = "error" /\ call[p].ret = DefaultUSDTtoIRRRate
        /\ cachedUSDTtoIRRRate = 0
        /\ lastFetchTime = ZeroTime
        /\ pc[q] = "fetching"
        /\ call[q].check2 = "stale"
        /\ window.fetches = 2

(***************************************************************************)
(* The paginated ingestion loop of csgoskin.go.                            *)
(*                                                                         *)
(* A record of the source is kept by its native id and by whether its      *)
(* price field parses (convertToItem's only hard error).  The store may    *)
(* fail either upsert of processItem.                                      *)
(***************************************************************************)
Sentinel == "0"
ItemIDs == {"0", "a", "b"}
Records == [itemID : ItemIDs, priceOk : BOOLEAN]

RECURSIVE SeqsUpTo(_, _)
SeqsUpTo(S, n) ==
    IF n = 0 THEN {<<>>}
    ELSE LET shorter == SeqsUpTo(S, n - 1)
         IN shorter \cup {Append(q, x) : q \in {r \in shorter : Len(r) = n - 1}, x \in S}

SourcePages == SeqsUpTo(Records, MaxPageLen)

\* The page index after one more request.  The index stops counting at
\* MaxPages: later pages are not told apart.
NextPageIndex(n) == IF n < MaxPages THEN n + 1 ELSE n

\* fetchItemsPage (lines 159-165): the cursor returned with a decoded page.
\* Preceded by the variant that takes the id of the first record.
PageCursor_First(items, cursor) == IF Len(items) > 0 THEN items[1].itemID ELSE cursor
PageCursor(items, cursor) == IF Len(items) > 0 THEN items[Len(items)].itemID ELSE cursor

\* fetchItemsPage lines 153-157: what it returns for a body whose decoding
\* fails after the records partial: no record, the cursor it was given and
\* the error.  Preceded by the variant that keeps what had decoded.
PageOnDecodeError_KeepDecoded(partial, cursor) ==
    [items |-> partial, cursor |-> PageCursor(partial, cursor), err |-> FALSE]
PageOnDecodeError(partial, cursor) == [items |-> <<>>, cursor |-> cursor, err |-> TRUE]

\* processItem (lines 169-193): nil unless the Skin upsert, the price parse
\* or the Item upsert fails.
ProcessItemOk(rec, skinOk, itemOk) == skinOk /\ rec.priceOk /\ itemOk

\* FetchItems line 64: the page index named by the error of a failed page
\* request; n is totalPages after the increment of line 58.  Preceded by
\* the variant that counts pages from zero.
ErrorPageIndex_ZeroBased(n) == n - 1
ErrorPageIndex(n) == n

\* FetchItems lines 71-77: where the range loop goes after record i of n,
\* whether processItem returned an error or not (continue).  Preceded by
\* the variant that leaves the loop at the first error and by the variant
\* that returns from FetchItems at the first error.
AfterItem_BreakOnError(ok, i, n) == IF ok /\ i < n THEN "process" ELSE "check"
AfterItem_ReturnOnError(ok, i, n) == IF ~ok THEN "failed" ELSE IF i < n THEN "process" ELSE "check"
AfterItem(ok, i, n) == IF i < n THEN "process" ELSE "check"

\* FetchItems line 80: the end of pagination.
ReachedEnd(itemCount, newCursor, cursor) == itemCount = 0 \/ newCursor = cursor

\* FetchItems line 86: the safety limit.  Preceded by the variant that
\* stops only above the limit.
HitLimit_Above(total) == total > MaxItemsToFetch
HitLimit(total) == total >= MaxItemsToFetch

NoHist == [requests |-> 0,            \* page requests sent
           successes |-> 0,           \* processItem calls that returned nil
           attempted |-> 0,           \* processItem calls made for the current page
           pageFailed |-> FALSE,      \* a record of the current page failed
           recordFailed |-> FALSE,    \* a record of the run failed
           laterProcessed |-> FALSE,  \* a record was processed after a failed one of its page
           requestedAfterFailure |-> FALSE, \* a page was requested after a record failed
           prevNonEmpty |-> FALSE,    \* the previous page held records
           prevTrail |-> "0",         \* and this was its last record's id
           stalled |-> FALSE,         \* two consecutive non-empty pages ended in the same id
           requestedAfterStall |-> FALSE,
           totalAtRequest |-> 0,      \* totalItemsProcessed when the last request was sent
           end |-> "none",            \* "exhausted", "limit", "error"
           undecodable |-> FALSE,     \* the body of the last page did not decode
           decodedBefore |-> 0]       \* and so many of its records had decoded before the error

IngestInit ==
    /\ lastItemID = Sentinel
    /\ totalItemsProcessed = 0
    /\ totalPages = 0
    /\ runPc = "request"
    /\ csgoItems = <<>>
    /\ newLastItemID = Sentinel
    /\ idx = 1
    /\ runErr = 0
    /\ hist = NoHist

RequestHist ==
    [hist EXCEPT !.requests = NextPageIndex(@),
                 !.attempted = 0,
                 !.pageFailed = FALSE,
                 !.requestedAfterFailure = @ \/ hist.recordFailed,
                 !.requestedAfterStall = @ \/ hist.stalled,
                 !.totalAtRequest = totalItemsProcessed]

\* lines 58-65: the page request fails (transport error or non-200 status,
\* fetchItemsPage lines 144-151); FetchItems returns the error at once
RequestPageFails ==
    /\ runPc = "request"
    /\ totalPages' = NextPageIndex(totalPages)
    /\ runErr' = ErrorPageIndex(NextPageIndex(totalPages))
    /\ runPc' = "failed"
    /\ hist' = [RequestHist EXCEPT !.end = "error"]
    /\ UNCHANGED <<lastItemID, totalItemsProcessed, csgoItems, newLastItemID, idx>>
    /\ UNCHANGED ingestFrame

\* lines 58-65 with fetchItemsPage lines 153-157: the page request returns
\* status 200 with a body that json.Unmarshal rejects after the records
\* partial had decoded; fetchItemsPage returns its error and no record.
RequestPageUndecodable(partial) ==
    /\ runPc = "request"
    /\ totalPages' = NextPageIndex(totalPages)
    /\ LET page == PageOnDecodeError(partial, lastItemID)
           h == [RequestHist EXCEPT !.undecodable = TRUE, !.decodedBefore = Len(partial)]
       IN IF page.err
             THEN /\ runErr' = ErrorPageIndex(NextPageIndex(totalPages))
                  /\ runPc' = "failed"
                  /\ hist' = [h EXCEPT !.end = "error"]
                  /\ UNCHANGED <<csgoItems, newLastItemID, idx>>
             ELSE /\ csgoItems' = page.items
                  /\ newLastItemID' = page.cursor
                  /\ idx' = 1
                  /\ runPc' = IF Len(page.items) > 0 THEN "process" ELSE "check"
                  /\ hist' = h
                  /\ UNCHANGED runErr
    /\ UNCHANGED <<lastItemID, totalItemsProcessed>>
    /\ UNCHANGED ingestFrame

\* lines 58-68: the page request returns the records items
RequestPageReturns(items) ==
    /\ runPc = "request"
    /\ totalPages' = NextPageIndex(totalPages)
    /\ csgoItems' = items
    /\ newLastItemID' = PageCursor(items, lastItemID)
    /\ idx' = 1
    /\ runPc' = IF Len(items) > 0 THEN "process" ELSE "check"
    /\ hist' = [RequestHist EXCEPT
                   !.stalled = /\ Len(items) > 0
                               /\ hist.prevNonEmpty
                               /\ items[Len(items)].itemID = hist.prevTrail,
                   !.prevNonEmpty = Len(items) > 0,
                   !.prevTrail = IF Len(items) > 0 THEN items[Len(items)].itemID ELSE @]
    /\ UNCHANGED <<lastItemID, totalItemsProcessed, runErr>>
    /\ UNCHANGED ingestFrame

\* lines 71-77: one iteration of the range loop over the page
ProcessItem(skinOk, itemOk) ==
    /\ runPc = "process"
    /\ LET ok == ProcessItemOk(csgoItems[idx], skinOk, itemOk)
       IN /\ totalItemsProcessed' = IF ok THEN totalItemsProcessed + 1
                                          ELSE totalItemsProcessed
          /\ hist' = [hist EXCEPT !.successes = IF ok THEN @ + 1 ELSE @,
                                  !.attempted = @ + 1,
                                  !.pageFailed = @ \/ ~ok,
                                  !.recordFailed = @ \/ ~ok,
                                  !.laterProcessed = @ \/ hist.pageFailed]
          /\ runPc' = AfterItem(ok, idx, Len(csgoItems))
    /\ idx' = idx + 1
    /\ UNCHANGED <<lastItemID, totalPages, csgoItems, newLastItemID, runErr>>
    /\ UNCHANGED ingestFrame

\* lines 79-95: end of pagination, safety limit, or the next page
CheckPage ==
    /\ runPc = "check"
    /\ IF ReachedEnd(Len(csgoItems), newLastItemID, lastItemID)
          THEN /\ runPc' = "done"
               /\ hist' = [hist EXCEPT !.end = "exhausted"]
               /\ UNCHANGED lastItemID
          ELSE IF HitLimit(totalItemsProcessed)
                  THEN /\ runPc' = "done"
                       /\ hist' = [hist EXCEPT !.end = "limit"]
                       /\ UNCHANGED lastItemID
                  ELSE /\ runPc' = "request"
                       /\ lastItemID' = newLastItemID
                       /\ UNCHANGED hist
    /\ UNCHANGED <<totalItemsProcessed, totalPages, csgoItems, newLastItemID, idx, runErr>>
    /\ UNCHANGED ingestFrame

IngestNext ==
    \/ RequestPageFails
    \/ \E partial \in SourcePages : RequestPageUndecodable(partial)
    \/ \E items \in SourcePages : RequestPageReturns(items)
    \/ \E skinOk \in BOOLEAN, itemOk \in BOOLEAN : ProcessItem(skinOk, itemOk)
    \/ CheckPage

(***************************************************************************)
(* Claims about FetchItems (checked under IngestSpec, C10 under            *)
(* IngestFairSpec).                                                        *)
(***************************************************************************)
Terminated == runPc \in {"done", "failed"}

\* C7 as stated: once the source has returned the same trailing id on two
\* consecutive non-empty pages, the run ends without error after the second
\* of them, requests no further page, and has not processed more than
\* MaxItemsToFetch records.
C7_StalledCursorWithinLimit ==
    hist.stalled =>
        /\ runPc \in {"process", "check", "done"}
        /\ runErr = 0
        /\ ~hist.requestedAfterStall
        /\ totalItemsProcessed <= MaxItemsToFetch

\* C8: a failed page request ends the run at once with an error naming the
\* index of that request; no record of that page is processed and the
\* records processed are the successes of the pages before it; no further
\* step of the run is possible.
C8_PageFailureAborts ==
    /\ runPc = "failed" =>
           /\ hist.end = "error"
           /\ runErr >= 1
           /\ runErr = hist.requests
           /\ hist.attempted = 0
           /\ totalItemsProcessed = hist.totalAtRequest
           /\ totalItemsProcessed = hist.successes
           /\ ~ENABLED IngestNext
    /\ hist.end = "error" => runPc = "failed"
    /\ runErr # 0 => runPc = "failed"

\* The second or a later page request failed, after records had succeeded
\* and failed on the pages before it.
C8_Witness ==
    /\ runPc = "failed"
    /\ runErr >= 2
    /\ totalItemsProcessed >= 1
    /\ hist.recordFailed

\* C9: a record whose processItem fails is not counted; every record of the
\* page is still handed to processItem; the run ends only by the normal
\* rules (end of pagination, safety limit) or by a failed page request.
C9_PartialFailureIsolation ==
    /\ totalItemsProcessed = hist.successes
    /\ runPc = "process" => idx <= Len(csgoItems) /\ hist.attempted = idx - 1
    /\ runPc = "check" => hist.attempted = Len(csgoItems)
    /\ runPc = "failed" => hist.end = "error" /\ hist.attempted = 0
    /\ runPc = "done" =>
           /\ runErr = 0
           /\ hist.attempted = Len(csgoItems)
           /\ \/ /\ hist.end = "exhausted"
                 /\ Len(csgoItems) = 0 \/ newLastItemID = lastItemID
              \/ /\ hist.end = "limit"
                 /\ totalItemsProcessed >= MaxItemsToFetch

\* A record failed, a later record of its page was processed, a following
\* page was requested, and the run ended without error with records counted.
C9_Witness ==
    /\ hist.laterProcessed
    /\ hist.requestedAfterFailure
    /\ runPc = "done"
    /\ totalItemsProcessed >= 1

\* C10 as stated: every run eventually reaches a terminal state.
C10_RunTerminates == <>Terminated

\* C11 as stated: in every reachable state of a run the number of records
\* processed without error is at most MaxItemsToFetch.
C11_ProcessedWithinLimit == totalItemsProcessed <= MaxItemsToFetch

\* C21 as stated: the end of pagination is tested before any record of the
\* page is handed to processItem, so when a run ends as exhausted no record
\* of its last page has been processed or counted.
C21_ExhaustedPageUntouched ==
    hist.end = "exhausted" =>
        /\ hist.attempted = 0
        /\ totalItemsProcessed = hist.totalAtRequest

\* The records of the current page whose price parses, and those of them
\* counted: every record of the page has been handed to processItem once
\* the range loop is over.
PageParsable == Cardinality({i \in 1..Len(csgoItems) : csgoItems[i].priceOk})
PageCounted == totalItemsProcessed - hist.totalAtRequest

\* A record of the last page whose price parses was not counted: InsertSkin
\* or InsertItem failed for it (processItem lines 176-179, 187-190).
UpsertFailedOnLastPage ==
    /\ runPc \in {"check", "done"}
    /\ PageCounted < PageParsable

\* A page request of the run failed (lines 62-65).
PageFetchFailed == hist.end = "error"

\* C22 as stated: the run returns an error exactly when a page request
\* failed or an upsert failed for a record; here for the records of the
\* run's last page.
C22_UpsertFailureFailsRun ==
    Terminated => (runErr # 0 <=> PageFetchFailed \/ UpsertFailedOnLastPage)

\* C22, amended: the run returns an error exactly when a page request
\* failed; a record's failure, a failed upsert included, is never returned
\* and never stops the run, which goes on to the next record or to the
\* tests that follow the page.
C22_OnlyPageFailureFailsRun ==
    /\ Terminated => (runErr # 0 <=> PageFetchFailed)
    /\ runPc = "failed" <=> PageFetchFailed
    /\ PageFetchFailed => hist.attempted = 0
    /\ UpsertFailedOnLastPage => runErr = 0 /\ hist.attempted = Len(csgoItems)
    /\ hist.recordFailed /\ ~PageFetchFailed => runErr = 0

\* A run has ended without error after an upsert failed for a record of its
\* last page.
C22_Witness ==
    /\ runPc = "done"
    /\ runErr = 0
    /\ UpsertFailedOnLastPage
    /\ hist.recordFailed

\* The cursor a page request carries: lastItemID when the request is sent.
CursorOfNextRequest ==
    runPc = "request" =>
        IF hist.requests = 0
           THEN lastItemID = Sentinel
           ELSE /\ hist.prevNonEmpty
                /\ lastItemID = hist.prevTrail
                /\ lastItemID = csgoItems[Len(csgoItems)].itemID

\* While the records of a page are processed, and after an empty page, the
\* cursor returned with the page is the one fetchItemsPage computed.
CursorOfPage ==
    runPc \in {"process", "check", "done"} /\ hist.requests >= 1 =>
        /\ newLastItemID = PageCursor(csgoItems, lastItemID)
        /\ Len(csgoItems) = 0 => newLastItemID = lastItemID

\* A processItem call, failed or not, and the return of an empty page leave
\* the cursor as it was.
CursorKept ==
    /\ runPc = "process" => lastItemID' = lastItemID /\ newLastItemID' = newLastItemID
    /\ runPc = "request" /\ runPc' = "check" => lastItemID' = lastItemID /\ newLastItemID' = lastItemID
    /\ runPc = "request" => lastItemID' = lastItemID

\* C28: the first page request of a run carries the sentinel "0" and every
\* later one the native id of the last record of the page fetched just
\* before it; neither a failed record nor an empty page changes the cursor.
C28_CursorProtocol == [](CursorOfNextRequest /\ CursorOfPage) /\ [][CursorKept]_vars

\* The third request is about to be sent with the id of the last record of
\* the second page, which held two records with different ids, one of them
\* failed.
C28_Witness ==
    /\ runPc = "request"
    /\ hist.requests = 2
    /\ Len(csgoItems) = 2
    /\ csgoItems[1].itemID # csgoItems[2].itemID
    /\ lastItemID = csgoItems[2].itemID
    /\ lastItemID # Sentinel
    /\ hist.pageFailed

\* No page is requested once the limit is reached: a request is sent, or has
\* failed, only with fewer than MaxItemsToFetch records processed.
NoRequestAtLimit ==
    /\ runPc = "request" => totalItemsProcessed < MaxItemsToFetch
    /\ hist.requests >= 1 => hist.totalAtRequest < MaxItemsToFetch
    /\ hist.end = "limit" =>
           /\ runPc = "done" /\ runErr = 0
           /\ totalItemsProcessed >= MaxItemsToFetch
           /\ newLastItemID # lastItemID

\* The step after a page that brought the total to the limit ends the run.
StopsAtLimit ==
    runPc = "check" /\ totalItemsProcessed >= MaxItemsToFetch =>
        /\ runPc' = "done"
        /\ runErr' = 0
        /\ totalPages' = totalPages

\* C29: once MaxItemsToFetch or more records have been processed without
\* error when a page is finished, the run requests no further page and ends
\* without error, also when the page was not empty and its cursor advanced.
C29_LimitStop == []NoRequestAtLimit /\ [][StopsAtLimit]_vars

\* The run ended at the limit after a page that moved the cursor and that
\* held a failed record.
C29_Witness ==
    /\ runPc = "done"
    /\ hist.end = "limit"
    /\ runErr = 0
    /\ totalItemsProcessed >= MaxItemsToFetch
    /\ newLastItemID # lastItemID
    /\ hist.requests >= 2
    /\ hist.recordFailed

\* C34: a page whose body does not decode ends the run as a failed page
\* request does: with the error naming that page, with none of the records
\* of the body processed or counted, whatever had decoded before the error,
\* and with no further request, for that page or another.
C34_UndecodablePageAborts ==
    hist.undecodable =>
        /\ runPc = "failed"
        /\ hist.end = "error"
        /\ runErr >= 1
        /\ runErr = hist.requests
        /\ runErr = totalPages
        /\ hist.attempted = 0
        /\ totalItemsProcessed = hist.totalAtRequest
        /\ totalItemsProcessed = hist.successes
        /\ ~ENABLED IngestNext

\* The body of the second or a later page broke off after two records had
\* decoded; records of the pages before it had been processed.
C34_Witness ==
    /\ hist.undecodable
    /\ hist.decodedBefore = 2
    /\ runPc = "failed"
    /\ runErr >= 2
    /\ totalItemsProcessed >= 1
    /\ Len(csgoItems) >= 1

(***************************************************************************)
(* The conversion functions of csgoskin.go and the wear classifier of the  *)
(* models.  A string the functions look into is a sequence of symbols: SP  *)
(* is one white-space character and every other symbol a run of characters *)
(* without white space.  A string they only parse as a number is a literal *)
(* with its value in ParseFloat.  A number is the fraction num/den with    *)
(* den > 0.                                                                *)
(***************************************************************************)
MaxStringLen == 4

SP == " "

Frac(n, d) == [num |-> n, den |-> d]

RECURSIVE GCD(_, _)
GCD(a, b) == IF b = 0 THEN a ELSE GCD(b, a % b)

\* A fraction in lowest terms; equality of numbers is equality of these.
Abs(n) == IF n < 0 THEN 0 - n ELSE n
Lowest(a) == LET g == GCD(Abs(a.num), a.den) IN Frac(a.num \div g, a.den \div g)
FEq(a, b) == Lowest(a) = Lowest(b)
FLess(a, b) == Lowest(a).num * Lowest(b).den < Lowest(b).num * Lowest(a).den
FLe(a, b) == Lowest(a).num * Lowest(b).den <= Lowest(b).num * Lowest(a).den
FMul(a, b) == Frac(a.num * b.num, a.den * b.den)
Zero == Frac(0, 1)
\* +Inf of float64, which strconv.ParseFloat returns together with its
\* error for a literal that is well formed and out of range.
Inf == Frac(1, 0)

\* strings.TrimSpace
RECURSIVE TrimLeft(_)
TrimLeft(s) == IF s # <<>> /\ Head(s) = SP THEN TrimLeft(Tail(s)) ELSE s

RECURSIVE TrimRight(_)
TrimRight(s) == IF s # <<>> /\ s[Len(s)] = SP THEN TrimRight(SubSeq(s, 1, Len(s) - 1)) ELSE s

TrimSpace(s) == TrimRight(TrimLeft(s))

\* strings.Contains
StringsContains(s, substr) ==
    \E i \in 1..(Len(s) - Len(substr) + 1) : SubSeq(s, i, i + Len(substr) - 1) = substr

\* strings.Fields: the maximal runs of symbols other than SP.
FirstSpace(s) ==
    IF \E i \in 1..Len(s) : s[i] = SP
        THEN CHOOSE i \in 1..Len(s) : s[i] = SP /\ \A j \in 1..(i - 1) : s[j] # SP
        ELSE Len(s) + 1

RECURSIVE Fields(_)
Fields(s) ==
    LET t == TrimLeft(s)
    IN IF t = <<>> THEN <<>>
       ELSE <<SubSeq(t, 1, FirstSpace(t) - 1)>> \o Fields(SubSeq(t, FirstSpace(t), Len(t)))

\* strconv.ParseFloat on the numeric literals of the model; every other
\* string is a syntax error, for which ParseFloat returns 0 and an error.
ParseFloat(s) ==
    CASE s = "0" -> [ok |-> TRUE, val |-> Frac(0, 1)]
      [] s = "0.05" -> [ok |-> TRUE, val |-> Frac(5, 100)]
      [] s = "0.2" -> [ok |-> TRUE, val |-> Frac(20, 100)]
      [] s = "40" -> [ok |-> TRUE, val |-> Frac(40, 1)]
      [] s = "52" -> [ok |-> TRUE, val |-> Frac(52, 1)]
      [] s = "115" -> [ok |-> TRUE, val |-> Frac(115, 1)]
      [] s = "1000" -> [ok |-> TRUE, val |-> Frac(1000, 1)]
      [] s = "2500" -> [ok |-> TRUE, val |-> Frac(2500, 1)]
      [] s = "500000" -> [ok |-> TRUE, val |-> Frac(500000, 1)]
      [] s = "1000000" -> [ok |-> TRUE, val |-> Frac(1000000, 1)]
      [] s = "1e400" -> [ok |-> FALSE, val |-> Inf]
      [] OTHER -> [ok |-> FALSE, val |-> Zero]

\* strings.TrimPrefix(s, "$") on the price literals of the model.
TrimDollar(s) ==
    CASE s = "$52" -> "52"
      [] s = "$1e400" -> "1e400"
      [] s = "$115" -> "115"
      [] s = "$" -> ""
      [] OTHER -> s

\* The families of parseCategory (lines 318-340), each name as a string.
Word(w) == <<w>>
Rifles == {Word("AK-47"), Word("M4A4"), Word("M4A1-S"), Word("FAMAS"), Word("GALIL"), Word("AUG"), Word("SG")}
SniperRifles == {Word("AWP"), Word("SCAR-20"), Word("G3SG1"), Word("SSG"), <<"SSG", SP, "08">>}
SMGs == {Word("P90"), Word("MP5"), Word("MP7"), Word("MP9"), Word("MAC-10"), Word("UMP-45"), Word("PP-BIZON")}
Pistols == {Word("GLOCK"), Word("USP-S"), Word("P2000"), Word("P250"), Word("FIVE-SEVEN"), Word("TEC-9"),
            Word("CZ75"), <<"DESERT", SP, "EAGLE">>, <<"DUAL", SP, "BERETTAS">>, Word("R8")}
Shotguns == {Word("NOVA"), Word("XM1014"), Word("MAG-7"), Word("SAWED-OFF")}
MachineGuns == {Word("M249"), Word("NEGEV")}

\* contains (lines 350-357): membership by string equality.
contains(slice, s) == \E item \in slice : item = s

\* The family lookup of parseCategory on the first field (lines 314-342).
FamilyOf(parts) ==
    LET subCategory == parts[1]
    IN CASE contains(Rifles, subCategory) -> [category |-> "Rifle", subCategory |-> subCategory]
         [] contains(SniperRifles, subCategory) -> [category |-> "Sniper Rifle", subCategory |-> subCategory]
         [] contains(SMGs, subCategory) -> [category |-> "SMG", subCategory |-> subCategory]
         [] contains(Pistols, subCategory) -> [category |-> "Pistol", subCategory |-> subCategory]
         [] contains(Shotguns, subCategory) -> [category |-> "Shotgun", subCategory |-> subCategory]
         [] contains(MachineGuns, subCategory) -> [category |-> "Machine Gun", subCategory |-> subCategory]
         [] OTHER -> [category |-> "Other", subCategory |-> subCategory]

\* parseCategory (lines 300-347), preceded by the variant that looks the
\* first field up before it looks for the two keywords.
parseCategory_FamilyFirst(fullCategory) ==
    LET full == TrimSpace(fullCategory)
        parts == Fields(full)
    IN IF Len(parts) > 0 /\ FamilyOf(parts).category # "Other" THEN FamilyOf(parts)
       ELSE IF StringsContains(full, Word("KNIFE")) THEN [category |-> "Knife", subCategory |-> full]
       ELSE IF StringsContains(full, Word("GLOVES")) THEN [category |-> "Gloves", subCategory |-> full]
       ELSE IF Len(parts) > 0 THEN FamilyOf(parts)
       ELSE [category |-> "Unknown", subCategory |-> full]

parseCategory(fullCategory) ==
    LET full == TrimSpace(fullCategory)
        parts == Fields(full)
    IN IF StringsContains(full, Word("KNIFE")) THEN [category |-> "Knife", subCategory |-> full]
       ELSE IF StringsContains(full, Word("GLOVES")) THEN [category |-> "Gloves", subCategory |-> full]
       ELSE IF Len(parts) > 0 THEN FamilyOf(parts)
       ELSE [category |-> "Unknown", subCategory |-> full]

\* The wear labels as strings.
FactoryNew == <<"Factory", SP, "New">>
FactoryNewHyphen == <<"Factory", "-", "New">>
MinimalWear == <<"Minimal", SP, "Wear">>
MinimalWearHyphen == <<"Minimal", "-", "Wear">>
FieldTested == <<"Field", "-", "Tested">>
WellWorn == <<"Well", "-", "Worn">>
BattleScarred == <<"Battle", "-", "Scarred">>
UnknownWear == <<"Unknown">>

\* The wear bounds convertToSkin gives a trimmed quality label (lines
\* 203-214), preceded by the variant whose Field-Tested range stops short.
WearBounds_Gap(quality) ==
    CASE quality = FactoryNew \/ quality = FactoryNewHyphen -> <<Frac(0, 100), Frac(7, 100)>>
      [] quality = MinimalWear \/ quality = MinimalWearHyphen -> <<Frac(7, 100), Frac(15, 100)>>
      [] quality = FieldTested -> <<Frac(15, 100), Frac(35, 100)>>
      [] quality = WellWorn -> <<Frac(38, 100), Frac(45, 100)>>
      [] quality = BattleScarred -> <<Frac(45, 100), Frac(100, 100)>>
      [] OTHER -> <<Frac(0, 1), Frac(1, 1)>>

WearBounds(quality) ==
    CASE quality = FactoryNew \/ quality = FactoryNewHyphen -> <<Frac(0, 100), Frac(7, 100)>>
      [] quality = MinimalWear \/ quality = MinimalWearHyphen -> <<Frac(7, 100), Frac(15, 100)>>
      [] quality = FieldTested -> <<Frac(15, 100), Frac(38, 100)>>
      [] quality = WellWorn -> <<Frac(38, 100), Frac(45, 100)>>
      [] quality = BattleScarred -> <<Frac(45, 100), Frac(100, 100)>>
      [] OTHER -> <<Frac(0, 1), Frac(1, 1)>>

\* GetWearCategory of the Skin model (lines 24-39 of the models file).
GetWearCategory(float) ==
    IF FLe(Zero, float) /\ FLess(float, Frac(7, 100)) THEN FactoryNew
    ELSE IF FLe(Frac(7, 100), float) /\ FLess(float, Frac(15, 100)) THEN MinimalWear
    ELSE IF FLe(Frac(15, 100), float) /\ FLess(float, Frac(38, 100)) THEN FieldTested
    ELSE IF FLe(Frac(38, 100), float) /\ FLess(float, Frac(45, 100)) THEN WellWorn
    ELSE IF FLe(Frac(45, 100), float) /\ FLe(float, Frac(1, 1)) THEN BattleScarred
    ELSE UnknownWear

\* convertToSkin (lines 196-230).
convertToSkin(csgoItem) ==
    LET parsed == parseCategory(csgoItem.Category)
        quality == TrimSpace(csgoItem.Quality)
    IN [MarketHashName |-> csgoItem.MarketHashName,
        Category |-> parsed.category,
        SubCategory |-> parsed.subCategory,
        SkinName |-> TrimSpace(csgoItem.SkinName),
        IsStatTrak |-> (csgoItem.IsStatTrack = 1),
        Quality |-> quality,
        MinFloat |-> WearBounds(quality)[1],
        MaxFloat |-> WearBounds(quality)[2],
        IconURL |-> <<"https://csgoskin.ir", csgoItem.IconMedium>>]

\* The Toman price in Rial (line 253), preceded by the variant that leaves
\* the Toman amount as it is.
TomanToRial_Unscaled(priceInToman) == priceInToman
TomanToRial(priceInToman) == FMul(priceInToman, Frac(10, 1))

\* The discounted price of convertToItem (lines 253-262): 0 when the field
\* is empty or does not parse.
ParseOrZero(s) == IF s # "" /\ ParseFloat(s).ok THEN ParseFloat(s).val ELSE Zero

\* The float and the reference price of convertToItem (lines 235-242 and
\* 271-279): 0 when the field is empty, else what strconv.ParseFloat
\* returned, whether it returned an error or not.
ParseLogged(s) == IF s # "" THEN ParseFloat(s).val ELSE Zero

\* convertToItem (lines 233-297) with the rate GetUSDTtoIRRRate returned to
\* GetIRRtoUSDRate: err when the price does not parse, else the Item.
convertToItem(csgoItem, skinID, marketplaceID, usdtToIRR) ==
    LET priceInToman == ParseFloat(csgoItem.Price)
        priceInRial == TomanToRial(priceInToman.val)
        irrToUsdRate == GetIRRtoUSDRateOf(usdtToIRR)
    IN [err |-> ~priceInToman.ok,
        item |-> [SkinID |-> skinID,
                  MarketplaceID |-> marketplaceID,
                  Float |-> ParseLogged(csgoItem.Float),
                  Stickers |-> csgoItem.Stickers,
                  Price |-> priceInRial,
                  PriceFailed |-> TomanToRial(ParseOrZero(csgoItem.PriceFailed)),
                  PriceUSD |-> FMul(priceInRial, irrToUsdRate),
                  SteamPriceUSD |-> ParseLogged(TrimDollar(csgoItem.PriceSteam)),
                  Tradeable |-> csgoItem.Tradeable,
                  IsFastSell |-> TRUE,
                  MarketItemID |-> csgoItem.ItemID]]

\* A raw listing of the marketplace (CSGOSkinItem) that every field parses.
BaseItem ==
    [ItemID |-> "a", Category |-> Word("AK-47"), SkinName |-> Word("Redline"), IsStatTrack |-> 0,
     Quality |-> FieldTested, Price |-> "1000", PriceFailed |-> "", Float |-> "0.2",
     MarketHashName |-> "AK-47 | Redline (Field-Tested)", Tradeable |-> "1", PriceSteam |-> "$115",
     IconMedium |-> "/icon.png", Stickers |-> <<>>]

\* The strings the conversion functions are applied to.
CategorySymbols == {SP, "KNIFE", "GLOVES", "AK-47", "SSG", "08", "DESERT", "EAGLE"}
CategoryStrings == SeqsUpTo(CategorySymbols, MaxStringLen)

TierSpellings == {FactoryNew, FactoryNewHyphen, MinimalWear, MinimalWearHyphen, FieldTested, WellWorn,
                  BattleScarred, <<"factory", SP, "new">>, <<"Field", SP, "Tested">>, UnknownWear}
QualitySymbols == {SP, "-", "Factory", "New", "Minimal", "Wear"}
QualityStrings ==
    SeqsUpTo(QualitySymbols, MaxStringLen)
        \cup {pre \o q \o post : pre \in {<<>>, <<SP>>}, q \in TierSpellings, post \in {<<>>, <<SP>>, <<SP, SP>>}}

FloatValues == {Frac(n, 100) : n \in -1..101}
PriceStrings == {"0", "40", "1000", "2500", "500000", "1000000", "", "N/A"}
SteamPriceStrings == {"$115", "$52", "115", "", "N/A", "$1e400"}
FloatStrings == {"0.05", "0.2", "", "N/A", "1e400"}
FailedPriceStrings == {"", "1000", "N/A", "1e400"}
\* What GetUSDTtoIRRRate can return: a fetched price in Rial or the default.
UsdtRates == {PriceInRial(p) : p \in Prices} \cup {DefaultUSDTtoIRRRate}

NoParsed == [category |-> "", subCategory |-> <<>>]
NoConvOut ==
    [done |-> FALSE, parsed |-> NoParsed, wear |-> <<>>, skin |-> convertToSkin(BaseItem), err |-> FALSE,
     item |-> convertToItem(BaseItem, 0, 0, 0).item]

ConvIn(fn, csgoItem, usdtToIRR, float, fullCategory) ==
    [fn |-> fn, csgoItem |-> csgoItem, usdtToIRR |-> usdtToIRR, float |-> float, fullCategory |-> fullCategory]

\* The inputs of each conversion, one set per function.
ParseCategoryInputs == {ConvIn("parseCategory", BaseItem, 0, Zero, c) : c \in CategoryStrings}
GetWearCategoryInputs == {ConvIn("GetWearCategory", BaseItem, 0, f, <<>>) : f \in FloatValues}
ConvertToSkinInputs ==
    {ConvIn("convertToSkin", [BaseItem EXCEPT !.Quality = q, !.Category = c], 0, Zero, <<>>) :
        q \in QualityStrings, c \in {Word("AK-47"), <<"KARAMBIT", SP, "KNIFE">>}}
ConvertToItemInputs ==
    {ConvIn("convertToItem", [BaseItem EXCEPT !.Price = p, !.PriceSteam = s, !.Float = f], r, Zero, <<>>) :
        p \in PriceStrings, s \in SteamPriceStrings, f \in FloatStrings, r \in UsdtRates}
ConvertToItemFailedPriceInputs ==
    {ConvIn("convertToItem", [BaseItem EXCEPT !.PriceFailed = d, !.PriceSteam = s, !.Float = f],
            DefaultUSDTtoIRRRate, Zero, <<>>) :
        d \in FailedPriceStrings, s \in SteamPriceStrings, f \in FloatStrings}

ConvInit ==
    /\ \/ convIn \in ParseCategoryInputs
       \/ convIn \in GetWearCategoryInputs
       \/ convIn \in ConvertToSkinInputs
       \/ convIn \in ConvertToItemInputs
       \/ convIn \in ConvertToItemFailedPriceInputs
    /\ convOut = NoConvOut

\* Before a conversion is applied.
ConvIdle ==
    /\ convIn = ConvIn("none", BaseItem, 0, Zero, <<>>)
    /\ convOut = NoConvOut

CallParseCategory ==
    /\ convIn.fn = "parseCategory" /\ ~convOut.done
    /\ convOut' = [convOut EXCEPT !.done = TRUE, !.parsed = parseCategory(convIn.fullCategory)]
    /\ UNCHANGED convIn
    /\ UNCHANGED convFrame

CallGetWearCategory ==
    /\ convIn.fn = "GetWearCategory" /\ ~convOut.done
    /\ convOut' = [convOut EXCEPT !.done = TRUE, !.wear = GetWearCategory(convIn.float)]
    /\ UNCHANGED convIn
    /\ UNCHANGED convFrame

CallConvertToSkin ==
    /\ convIn.fn = "convertToSkin" /\ ~convOut.done
    /\ convOut' = [convOut EXCEPT !.done = TRUE, !.skin = convertToSkin(convIn.csgoItem)]
    /\ UNCHANGED convIn
    /\ UNCHANGED convFrame

CallConvertToItem ==
    /\ convIn.fn = "convertToItem" /\ ~convOut.done
    /\ LET r == convertToItem(convIn.csgoItem, 0, 0, convIn.usdtToIRR)
       IN convOut' = [convOut EXCEPT !.done = TRUE, !.err = r.err, !.item = r.item]
    /\ UNCHANGED convIn
    /\ UNCHANGED convFrame

ConvNext ==
    \/ CallParseCategory
    \/ CallGetWearCategory
    \/ CallConvertToSkin
    \/ CallConvertToItem

Applied(fn) == convOut.done /\ convIn.fn = fn

\* C15: convertToItem on a price p that parses and a rate r > 0 gives the
\* native price p*10 and the reference price (p*10)/r; for p = 1000 and
\* r = 100000 the reference price is 1/10.
C15_ScaleThenConvert ==
    (/\ Applied("convertToItem")
     /\ ParseFloat(convIn.csgoItem.Price).ok
     /\ convIn.usdtToIRR > 0)
        => LET p == ParseFloat(convIn.csgoItem.Price).val
               r == convIn.usdtToIRR
               usd == convOut.item.PriceUSD
           IN /\ ~convOut.err
              /\ FEq(convOut.item.Price, Frac(p.num * 10, p.den))
              /\ FEq(usd, Frac(p.num * 10, p.den * r))
              /\ (convIn.csgoItem.Price = "1000" /\ r = 100000) => FEq(usd, Frac(1, 10))

\* A price of 1000 was converted at the rate 100000 to 1/10.
C15_Witness ==
    /\ Applied("convertToItem")
    /\ convIn.csgoItem.Price = "1000"
    /\ convIn.usdtToIRR = 100000
    /\ FEq(convOut.item.Price, Frac(10000, 1))
    /\ FEq(convOut.item.PriceUSD, Frac(1, 10))

\* A numeric field that is absent or that strconv.ParseFloat rejects.
Malformed(str) == str = "" \/ ~ParseFloat(str).ok

\* C25 as stated, for convertToItem: the conversion fails exactly when the
\* native price does not parse, and a malformed or absent float, reference
\* price or discounted price is handed to the store as zero.
C25_MalformedFieldsAreZero ==
    Applied("convertToItem") =>
        /\ convOut.err <=> ~ParseFloat(convIn.csgoItem.Price).ok
        /\ ~convOut.err =>
               /\ Malformed(convIn.csgoItem.Float) => FEq(convOut.item.Float, Zero)
               /\ Malformed(TrimDollar(convIn.csgoItem.PriceSteam)) => FEq(convOut.item.SteamPriceUSD, Zero)
               /\ Malformed(convIn.csgoItem.PriceFailed) => FEq(convOut.item.PriceFailed, Zero)

\* The wear table of the five tier labels, their order, and what the wear
\* bounds of the produced Skin are.
FiveTiers == <<FactoryNew, MinimalWear, FieldTested, WellWorn, BattleScarred>>
FiveTierBounds ==
    <<<<Frac(0, 100), Frac(7, 100)>>, <<Frac(7, 100), Frac(15, 100)>>, <<Frac(15, 100), Frac(38, 100)>>,
      <<Frac(38, 100), Frac(45, 100)>>, <<Frac(45, 100), Frac(100, 100)>>>>
SkinBoundsAre(b) == FEq(convOut.skin.MinFloat, b[1]) /\ FEq(convOut.skin.MaxFloat, b[2])
TiersContiguous ==
    /\ FEq(WearBounds(FiveTiers[1])[1], Zero)
    /\ \A i \in 1..4 : FEq(WearBounds(FiveTiers[i])[2], WearBounds(FiveTiers[i + 1])[1])
    /\ FEq(WearBounds(FiveTiers[5])[2], Frac(1, 1))
TiersAgreeWithWearCategory ==
    Applied("GetWearCategory") =>
        IF convOut.wear = UnknownWear
            THEN FLess(convIn.float, Zero) \/ FLess(Frac(1, 1), convIn.float)
            ELSE /\ FLe(WearBounds(convOut.wear)[1], convIn.float)
                 /\ \/ FLess(convIn.float, WearBounds(convOut.wear)[2])
                    \/ convOut.wear = BattleScarred /\ FEq(convIn.float, Frac(1, 1))

\* C16 as stated: the five tier labels, trimmed, get their table bounds and
\* every other label gets (0,1); the ranges are contiguous and agree with
\* GetWearCategory.
C16_OnlyFiveLabels ==
    /\ Applied("convertToSkin") =>
           LET q == TrimSpace(convIn.csgoItem.Quality)
           IN /\ \A i \in 1..5 : q = FiveTiers[i] => SkinBoundsAre(FiveTierBounds[i])
              /\ (\A i \in 1..5 : q # FiveTiers[i]) => SkinBoundsAre(<<Zero, Frac(1, 1)>>)
    /\ TiersContiguous
    /\ TiersAgreeWithWearCategory

\* C16 amended: as C16, with the hyphenated spellings Factory-New and
\* Minimal-Wear getting the bounds of Factory New and Minimal Wear; every
\* label other than these seven gets (0,1).
C16_SevenSpellings ==
    /\ Applied("convertToSkin") =>
           LET q == TrimSpace(convIn.csgoItem.Quality)
           IN /\ \A i \in 1..5 : q = FiveTiers[i] => SkinBoundsAre(FiveTierBounds[i])
              /\ q = FactoryNewHyphen => SkinBoundsAre(FiveTierBounds[1])
              /\ q = MinimalWearHyphen => SkinBoundsAre(FiveTierBounds[2])
              /\ ((\A i \in 1..5 : q # FiveTiers[i]) /\ q # FactoryNewHyphen /\ q # MinimalWearHyphen)
                     => SkinBoundsAre(<<Zero, Frac(1, 1)>>)
    /\ TiersContiguous
    /\ TiersAgreeWithWearCategory

\* A label with surrounding white space in the hyphenated spelling got the
\* Factory New bounds.
C16_Witness ==
    /\ Applied("convertToSkin")
    /\ convIn.csgoItem.Quality = <<SP>> \o FactoryNewHyphen
    /\ convOut.skin.Quality = FactoryNewHyphen
    /\ SkinBoundsAre(<<Frac(0, 1), Frac(7, 100)>>)

HasKeyword(k) == StringsContains(convIn.fullCategory, Word(k))

\* C17 as stated: a string with the knife keyword is a "Knife" and a string
\* with the glove keyword is "Gloves", whatever else the string holds.
C17_KeywordDecides ==
    Applied("parseCategory") =>
        /\ HasKeyword("KNIFE") => convOut.parsed.category = "Knife"
        /\ HasKeyword("GLOVES") => convOut.parsed.category = "Gloves"

\* C17 amended: a string with the knife keyword is a "Knife"; a string with
\* the glove keyword and without the knife keyword is "Gloves"; whatever
\* else the string holds.
C17_KnifeBeforeGloves ==
    Applied("parseCategory") =>
        /\ HasKeyword("KNIFE") => convOut.parsed.category = "Knife"
        /\ (HasKeyword("GLOVES") /\ ~HasKeyword("KNIFE")) => convOut.parsed.category = "Gloves"

\* A string that starts with a weapon family and holds both keywords was
\* classified as a knife.
C17_Witness ==
    /\ Applied("parseCategory")
    /\ convIn.fullCategory = <<"AK-47", SP, "GLOVES", "KNIFE">>
    /\ convOut.parsed.category = "Knife"

\* The lookup table of parseCategory (lines 319-340): the names of each
\* family and the category returned for it.
FamilyTable ==
    {[names |-> Rifles, category |-> "Rifle"],
     [names |-> SniperRifles, category |-> "Sniper Rifle"],
     [names |-> SMGs, category |-> "SMG"],
     [names |-> Pistols, category |-> "Pistol"],
     [names |-> Shotguns, category |-> "Shotgun"],
     [names |-> MachineGuns, category |-> "Machine Gun"]}

\* String s starts with the name: the name, then the end or white space.
StartsWithName(s, name) ==
    /\ Len(s) >= Len(name)
    /\ SubSeq(s, 1, Len(name)) = name
    /\ Len(s) > Len(name) => s[Len(name) + 1] = SP

\* C30 as stated: a classification without the knife and glove keywords
\* that starts with a name of the lookup table, one word or several, gets
\* the category of that name's family; a non-empty one that starts with no
\* name of the table gets "Other" and its first field as sub-category.
C30_TableNameResolves ==
    Applied("parseCategory") /\ ~HasKeyword("KNIFE") /\ ~HasKeyword("GLOVES") =>
        LET full == TrimSpace(convIn.fullCategory)
            named == {fam \in FamilyTable : \E name \in fam.names : StartsWithName(full, name)}
        IN /\ \A fam \in named : convOut.parsed.category = fam.category
           /\ full # <<>> /\ named = {} =>
                  /\ convOut.parsed.category = "Other"
                  /\ convOut.parsed.subCategory = Fields(full)[1]

(***************************************************************************)
(* The store of internal/models/marketplace.go and the runs that write to  *)
(* it through processItem.  A statement of the store is one step; the      *)
(* store's clock advances with every statement that writes, so that two    *)
(* rows never get the same NOW().  A DECIMAL(15,2) column holds an integer *)
(* number of hundredths.                                                   *)
(***************************************************************************)
MaxProcessCalls == 2
MaxQueries == 2
MaxConstructions == 3

\* The runs that can overlap: the one main starts and one started by the
\* refresh endpoint.
Runs == {"startup", "refresh"}

\* The id InsertMarketplace returned to NewCSGOSkinScraper.
MarketplaceID == 1

\* A number as a DECIMAL(15,2) column stores it: hundredths, rounded half
\* away from zero.
Decimal2(f) ==
    LET l == Lowest(f)
        n == Abs(l.num) * 100
        q == n \div l.den
        rounded == IF 2 * (n % l.den) >= l.den THEN q + 1 ELSE q
    IN IF l.num < 0 THEN 0 - rounded ELSE rounded

\* The listings the marketplace serves: a listing, the same listing seen
\* again with other values and a price that is less than half a cent, a
\* listing of another skin, and that listing with a price that does not
\* parse.
ListingA ==
    [BaseItem EXCEPT !.ItemID = "a", !.MarketHashName = "AK-47 | Redline", !.Price = "1000000",
                     !.PriceSteam = "$115"]
ListingAChanged ==
    [ListingA EXCEPT !.Price = "40", !.Float = "0.05", !.Quality = MinimalWear, !.Stickers = <<"Crown">>]
ListingB ==
    [BaseItem EXCEPT !.ItemID = "b", !.MarketHashName = "AWP | Asiimov", !.Category = Word("AWP"),
                     !.SkinName = Word("Asiimov"), !.Price = "500000", !.PriceSteam = "$52"]
ListingBNoPrice == [ListingB EXCEPT !.Price = "N/A"]
Listings == {ListingA, ListingAChanged, ListingB, ListingBNoPrice}
ListingIDs == {l.ItemID : l \in Listings}
StableNames == {l.MarketHashName : l \in Listings}

\* The rate convertToItem gets from the rate cache: a fetched price of
\* 10000 Toman per USDT.
StoreRates == {PriceInRial(10000)}

\* minProfitPercent as handleArbitrage passes it (10 by default).
Thresholds == {4, 10}

\* InsertSkin (lines 164-193): the conflict target, the new row, the row
\* after DO UPDATE, the table after the statement and the id returned.
SkinConflicts(r, skin) == r.market_hash_name = skin.MarketHashName

NewSkinRow(skin, id, t) ==
    [id |-> id, market_hash_name |-> skin.MarketHashName, category |-> skin.Category,
     sub_category |-> skin.SubCategory, skin_name |-> skin.SkinName, is_stattrak |-> skin.IsStatTrak,
     quality |-> skin.Quality, min_float |-> Lowest(skin.MinFloat), max_float |-> Lowest(skin.MaxFloat),
     icon_url |-> skin.IconURL, created_at |-> t, updated_at |-> t]

\* Preceded by the variant that replaces the row's timestamps as a fresh
\* insert would.
SkinOnConflict_Replace(r, skin, t) == NewSkinRow(skin, r.id, t)
SkinOnConflict(r, skin, t) ==
    [r EXCEPT !.category = skin.Category, !.sub_category = skin.SubCategory, !.skin_name = skin.SkinName,
              !.is_stattrak = skin.IsStatTrak, !.quality = skin.Quality, !.min_float = Lowest(skin.MinFloat),
              !.max_float = Lowest(skin.MaxFloat), !.icon_url = skin.IconURL, !.updated_at = t]

InsertSkinRows(rows, skin, id, t) ==
    IF \E r \in rows : SkinConflicts(r, skin)
        THEN {IF SkinConflicts(r, skin) THEN SkinOnConflict(r, skin, t) ELSE r : r \in rows}
        ELSE rows \cup {NewSkinRow(skin, id, t)}

\* RETURNING id, preceded by the variant that returns the generated id also
\* when the row was there.
InsertSkinID_Fresh(rows, skin, id) == id
InsertSkinID(rows, skin, id) ==
    IF \E r \in rows : SkinConflicts(r, skin)
        THEN (CHOOSE r \in rows : SkinConflicts(r, skin)).id
        ELSE id

\* The marketplace NewCSGOSkinScraper upserts (csgoskin.go lines 34-38).
CSGOSkinMarketplace == [Name |-> "CSGOSkin.ir", URL |-> "https://csgoskin.ir", Currency |-> "IRR"]

\* InsertMarketplace (lines 229-250), in the same parts.
MarketplaceConflicts(r, marketplace) == r.name = marketplace.Name

NewMarketplaceRow(marketplace, id, t) ==
    [id |-> id, name |-> marketplace.Name, url |-> marketplace.URL, currency |-> marketplace.Currency,
     created_at |-> t, updated_at |-> t]

MarketplaceOnConflict(r, marketplace, t) ==
    [r EXCEPT !.url = marketplace.URL, !.currency = marketplace.Currency, !.updated_at = t]

\* Preceded by the variant without the conflict clause.
InsertMarketplaceRows_Append(rows, marketplace, id, t) == rows \cup {NewMarketplaceRow(marketplace, id, t)}
InsertMarketplaceRows(rows, marketplace, id, t) ==
    IF \E r \in rows : MarketplaceConflicts(r, marketplace)
        THEN {IF MarketplaceConflicts(r, marketplace) THEN MarketplaceOnConflict(r, marketplace, t) ELSE r :
                 r \in rows}
        ELSE rows \cup {NewMarketplaceRow(marketplace, id, t)}

\* RETURNING id, preceded by the variant that returns the generated id also
\* when the row was there.
InsertMarketplaceID_Fresh(rows, marketplace, id) == id
InsertMarketplaceID(rows, marketplace, id) ==
    IF \E r \in rows : MarketplaceConflicts(r, marketplace)
        THEN (CHOOSE r \in rows : MarketplaceConflicts(r, marketplace)).id
        ELSE id

\* InsertItem (lines 196-226), in the same parts.
ItemConflicts(r, item) == r.marketplace_id = item.MarketplaceID /\ r.market_item_id = item.MarketItemID

NewItemRow(item, id, t) ==
    [id |-> id, skin_id |-> item.SkinID, marketplace_id |-> item.MarketplaceID, float |-> Lowest(item.Float),
     stickers |-> item.Stickers, price |-> Decimal2(item.Price), price_failed |-> Decimal2(item.PriceFailed),
     price_usd |-> Decimal2(item.PriceUSD), steam_price_usd |-> Decimal2(item.SteamPriceUSD),
     tradeable |-> item.Tradeable, is_fast_sell |-> item.IsFastSell, market_item_id |-> item.MarketItemID,
     created_at |-> t, updated_at |-> t]

\* Preceded by the variants that leave the update timestamp, and the whole
\* row, as they were.
ItemOnConflict_KeepUpdatedAt(r, item, t) ==
    [NewItemRow(item, r.id, t) EXCEPT !.created_at = r.created_at, !.updated_at = r.updated_at]
ItemOnConflict_DoNothing(r, item, t) == r
ItemOnConflict(r, item, t) ==
    [r EXCEPT !.skin_id = item.SkinID, !.float = Lowest(item.Float), !.stickers = item.Stickers,
              !.price = Decimal2(item.Price), !.price_failed = Decimal2(item.PriceFailed),
              !.price_usd = Decimal2(item.PriceUSD), !.steam_price_usd = Decimal2(item.SteamPriceUSD),
              !.tradeable = item.Tradeable, !.is_fast_sell = item.IsFastSell, !.updated_at = t]

\* Preceded by the variant without a conflict clause.
InsertItemRows_Append(rows, item, id, t) == rows \cup {NewItemRow(item, id, t)}
InsertItemRows(rows, item, id, t) ==
    IF \E r \in rows : ItemConflicts(r, item)
        THEN {IF ItemConflicts(r, item) THEN ItemOnConflict(r, item, t) ELSE r : r \in rows}
        ELSE rows \cup {NewItemRow(item, id, t)}

InsertItemID(rows, item, id) ==
    IF \E r \in rows : ItemConflicts(r, item)
        THEN (CHOOSE r \in rows : ItemConflicts(r, item)).id
        ELSE id

\* The arbitrage query of findArbitrageOpportunities (lines 157-183): the
\* join, the WHERE clause, the select list and the ORDER BY.  WHERE tests
\* the two prices before it divides by the acquisition price.
Joined(itemRows, skinRows, marketRows) ==
    {j \in itemRows \X skinRows \X marketRows : j[1].skin_id = j[2].id /\ j[1].marketplace_id = j[3].id}

\* Preceded by the variant that asks for more than the threshold.
Where_Strict(i, minProfitPercent) ==
    /\ i.steam_price_usd > 0
    /\ i.price_usd > 0
    /\ (i.steam_price_usd - i.price_usd) * 100 > minProfitPercent * i.price_usd
Where(i, minProfitPercent) ==
    /\ i.steam_price_usd > 0
    /\ i.price_usd > 0
    /\ (i.steam_price_usd - i.price_usd) * 100 >= minProfitPercent * i.price_usd

Select(j) ==
    [market_hash_name |-> j[2].market_hash_name,
     buy_price_usd |-> j[1].price_usd,
     sell_price_usd |-> j[1].steam_price_usd,
     profit_usd |-> j[1].steam_price_usd - j[1].price_usd,
     profit_percent |-> Frac((j[1].steam_price_usd - j[1].price_usd) * 100, j[1].price_usd),
     marketplace |-> j[3].name,
     float |-> j[1].float,
     quality |-> j[2].quality,
     icon_url |-> j[2].icon_url,
     category |-> j[2].category,
     is_stattrak |-> j[2].is_stattrak,
     stickers |-> j[1].stickers]

\* The sequences that list every element of S once.
Orderings(S) == {f \in [1..Cardinality(S) -> S] : \A x \in S : \E k \in 1..Cardinality(S) : f[k] = x}

\* ORDER BY profit_percent DESC, preceded by the ascending variant.
OrderBy_Asc(rows) == \A k \in 1..(Len(rows) - 1) : FLe(rows[k].profit_percent, rows[k + 1].profit_percent)
OrderBy(rows) == \A k \in 1..(Len(rows) - 1) : FLe(rows[k + 1].profit_percent, rows[k].profit_percent)

\* The results the query may return: the selected rows in any order that
\* ORDER BY allows (rows of equal profit_percent come in either order).
ArbitrageRows(itemRows, skinRows, marketRows, minProfitPercent) ==
    LET kept == {j \in Joined(itemRows, skinRows, marketRows) : Where(j[1], minProfitPercent)}
    IN {rows \in {[k \in 1..Cardinality(kept) |-> Select(f[k])] : f \in Orderings(kept)} : OrderBy(rows)}

\* The update timestamp of the row with the given id.
UpdatedAt(rows, id) == (CHOOSE r \in rows : r.id = id).updated_at

IdleRun == [pc |-> "idle", csgoItem |-> BaseItem, skinID |-> 0]
NoRows == [skinID |-> 0, itemID |-> 0, updated_at |-> 0]
NoSeen == [n |-> 0, prev |-> NoRows, last |-> NoRows]
NoCommit ==
    [set |-> FALSE, market_hash_name |-> "", price_usd |-> 0, steam_price_usd |-> 0,
     item |-> convertToItem(BaseItem, 0, 0, 0).item]
NoQuery ==
    [n |-> 0, minProfitPercent |-> 0, dbOk |-> TRUE, err |-> FALSE, rows |-> <<>>,
     amidRuns |-> FALSE]

NoScraper == [made |-> FALSE, marketplaceID |-> 0]

\* The store after NewCSGOSkinScraper: the marketplace row, no skin, no item.
StoreInit ==
    /\ skinsTbl = {}
    /\ itemsTbl = {}
    /\ marketplacesTbl = {[id |-> MarketplaceID, name |-> "CSGOSkin.ir", url |-> "https://csgoskin.ir",
                        currency |-> "IRR", created_at |-> 0, updated_at |-> 0]}
    /\ dbNow = 1
    /\ nextID = MarketplaceID + 1
    /\ run = [w \in Runs |-> IdleRun]
    /\ scrapers = [w \in Runs |-> [made |-> TRUE, marketplaceID |-> MarketplaceID]]
    /\ constructions = Cardinality(Runs)
    /\ processCalls = 0
    /\ firstSkinID = [name \in StableNames |-> 0]
    /\ seen = [l \in Listings |-> NoSeen]
    /\ committed = [k \in ListingIDs |-> NoCommit]
    /\ query = NoQuery

\* What a run waits for before it calls processItem: nothing, neither main's
\* goroutine nor handleRefresh takes a lock or looks at another run.
\* Preceded by the variant that waits until no other run is inside
\* processItem.
RunMayProceed_Serialized(w) == \A v \in Runs \ {w} : run[v].pc # "item"
RunMayProceed(w) == TRUE

\* processItem, first half (lines 169-180): convertToSkin and InsertSkin.
\* When the store fails the statement processItem returns the error.
ProcessItemSkin(w, csgoItem, ok) ==
    /\ run[w].pc = "idle"
    /\ RunMayProceed(w)
    /\ processCalls < MaxProcessCalls
    /\ processCalls' = processCalls + 1
    /\ LET skin == convertToSkin(csgoItem)
           id == InsertSkinID(skinsTbl, skin, nextID)
       IN IF ok
             THEN /\ skinsTbl' = InsertSkinRows(skinsTbl, skin, nextID, dbNow)
                  /\ nextID' = IF id = nextID THEN nextID + 1 ELSE nextID
                  /\ run' = [run EXCEPT ![w] = [pc |-> "item", csgoItem |-> csgoItem, skinID |-> id]]
                  /\ firstSkinID' = [firstSkinID EXCEPT ![skin.MarketHashName] = IF @ = 0 THEN id ELSE @]
                  /\ dbNow' = dbNow + 1
             ELSE UNCHANGED <<skinsTbl, nextID, run, firstSkinID, dbNow>>
    /\ UNCHANGED <<itemsTbl, marketplacesTbl, scrapers, constructions, seen, committed, query>>
    /\ UNCHANGED storeFrame

\* The Skin rows after a processItem call that failed behind its InsertSkin
\* (lines 182-190 return the error, nothing is undone).  Preceded by the
\* variant that takes the Skin row back.
SkinsAfterFailure_RolledBack(rows, skinID) == {r \in rows : r.id # skinID}
SkinsAfterFailure(rows, skinID) == rows

\* processItem, second half (lines 182-192): convertToItem with the rate
\* the cache returns, and InsertItem.  A price that does not parse ends the
\* call before the statement.
ProcessItemItem(w, usdtToIRR, ok) ==
    /\ run[w].pc = "item"
    /\ LET csgoItem == run[w].csgoItem
           conv == convertToItem(csgoItem, run[w].skinID, scrapers[w].marketplaceID, usdtToIRR)
           id == InsertItemID(itemsTbl, conv.item, nextID)
       IN IF conv.err
             THEN /\ skinsTbl' = SkinsAfterFailure(skinsTbl, run[w].skinID)
                  /\ UNCHANGED <<itemsTbl, nextID, dbNow, seen, committed>>
          ELSE IF ok
             THEN /\ itemsTbl' = InsertItemRows(itemsTbl, conv.item, nextID, dbNow)
                  /\ skinsTbl' = skinsTbl
                  /\ dbNow' = dbNow + 1
                  /\ nextID' = IF id = nextID THEN nextID + 1 ELSE nextID
                  /\ seen' = [seen EXCEPT ![csgoItem] =
                                 [n |-> @.n + 1, prev |-> @.last,
                                  last |-> [skinID |-> run[w].skinID, itemID |-> id,
                                            updated_at |-> UpdatedAt(itemsTbl', id)]]]
                  /\ committed' = [committed EXCEPT ![csgoItem.ItemID] =
                                      [set |-> TRUE, market_hash_name |-> csgoItem.MarketHashName,
                                       price_usd |-> Decimal2(conv.item.PriceUSD),
                                       steam_price_usd |-> Decimal2(conv.item.SteamPriceUSD),
                                       item |-> conv.item]]
             ELSE /\ skinsTbl' = SkinsAfterFailure(skinsTbl, run[w].skinID)
                  /\ UNCHANGED <<itemsTbl, nextID, dbNow, seen, committed>>
    /\ run' = [run EXCEPT ![w] = IdleRun]
    /\ UNCHANGED <<marketplacesTbl, scrapers, constructions, processCalls, firstSkinID, query>>
    /\ UNCHANGED storeFrame

\* A page request of the run fails: FetchItems returns the error and the
\* run is over (lines 62-66).
RunFails(w) ==
    /\ run[w].pc = "idle"
    /\ run' = [run EXCEPT ![w] = [IdleRun EXCEPT !.pc = "failed"]]
    /\ UNCHANGED <<skinsTbl, itemsTbl, marketplacesTbl, dbNow, nextID, scrapers, constructions, processCalls, firstSkinID,
                   seen, committed, query>>
    /\ UNCHANGED storeFrame

\* findArbitrageOpportunities (lines 155-216): one query of the store; an
\* error when the store fails it, else the rows in the order returned.
FindArbitrageOpportunities(minProfitPercent, ok) ==
    /\ query.n < MaxQueries
    /\ \E rows \in ArbitrageRows(itemsTbl, skinsTbl, marketplacesTbl, minProfitPercent) :
           query' = [n |-> query.n + 1, minProfitPercent |-> minProfitPercent, dbOk |-> ok, err |-> ~ok,
                     rows |-> IF ok THEN rows ELSE <<>>,
                     amidRuns |-> /\ \E w \in Runs : run[w].pc = "item"
                                  /\ \E w \in Runs : run[w].pc = "failed"]
    /\ UNCHANGED <<skinsTbl, itemsTbl, marketplacesTbl, dbNow, nextID, run, scrapers, constructions, processCalls,
                   firstSkinID, seen, committed>>
    /\ UNCHANGED storeFrame

\* The store before any NewCSGOSkinScraper call: the tables CreateTables
\* made are empty and no run has a scraper.
MarketStoreInit ==
    /\ skinsTbl = {}
    /\ itemsTbl = {}
    /\ marketplacesTbl = {}
    /\ dbNow = 1
    /\ nextID = MarketplaceID
    /\ run = [w \in Runs |-> [IdleRun EXCEPT !.pc = "new"]]
    /\ scrapers = [w \in Runs |-> NoScraper]
    /\ constructions = 0
    /\ processCalls = 0
    /\ firstSkinID = [name \in StableNames |-> 0]
    /\ seen = [l \in Listings |-> NoSeen]
    /\ committed = [k \in ListingIDs |-> NoCommit]
    /\ query = NoQuery

\* NewCSGOSkinScraper (lines 32-49) for run w: InsertMarketplace, then the
\* scraper with the id returned.  main calls it once, before the startup
\* run (main.go line 41); handleRefresh calls it at every refresh request
\* (part_001 line 72), also after an earlier refresh run or a failed call.
\* When the store fails the statement no scraper is made and no run starts.
NewCSGOSkinScraper(w, ok) ==
    /\ \/ run[w].pc = "new"
       \/ w = "refresh" /\ run[w].pc \in {"idle", "failed"}
    /\ constructions < MaxConstructions
    /\ constructions' = constructions + 1
    /\ LET id == InsertMarketplaceID(marketplacesTbl, CSGOSkinMarketplace, nextID)
       IN IF ok
             THEN /\ marketplacesTbl' = InsertMarketplaceRows(marketplacesTbl, CSGOSkinMarketplace, nextID, dbNow)
                  /\ nextID' = nextID + 1
                  /\ dbNow' = dbNow + 1
                  /\ scrapers' = [scrapers EXCEPT ![w] = [made |-> TRUE, marketplaceID |-> id]]
                  /\ run' = [run EXCEPT ![w] = IdleRun]
             ELSE /\ run' = [run EXCEPT ![w] = [IdleRun EXCEPT !.pc = "failed"]]
                  /\ UNCHANGED <<marketplacesTbl, nextID, dbNow, scrapers>>
    /\ UNCHANGED <<skinsTbl, itemsTbl, processCalls, firstSkinID, seen, committed, query>>
    /\ UNCHANGED storeFrame

\* The constructions and the runs they start.
MarketNext ==
    \/ \E w \in Runs, ok \in BOOLEAN : NewCSGOSkinScraper(w, ok)
    \/ \E w \in Runs, csgoItem \in Listings, ok \in BOOLEAN : ProcessItemSkin(w, csgoItem, ok)
    \/ \E w \in Runs, usdtToIRR \in StoreRates, ok \in BOOLEAN : ProcessItemItem(w, usdtToIRR, ok)
    \/ \E w \in Runs : RunFails(w)

StoreNext ==
    \/ \E w \in Runs, csgoItem \in Listings, ok \in BOOLEAN : ProcessItemSkin(w, csgoItem, ok)
    \/ \E w \in Runs, usdtToIRR \in StoreRates, ok \in BOOLEAN : ProcessItemItem(w, usdtToIRR, ok)
    \/ \E w \in Runs : RunFails(w)
    \/ \E minProfitPercent \in Thresholds, ok \in BOOLEAN : FindArbitrageOpportunities(minProfitPercent, ok)

(***************************************************************************)
(* Claims about the store and the arbitrage query.                         *)
(***************************************************************************)
SkinRowsOf(rows, name) == {r \in rows : r.market_hash_name = name}
ItemRowsOf(rows, marketItemID) ==
    {r \in rows : r.marketplace_id = MarketplaceID /\ r.market_item_id = marketItemID}

\* C12: after processItem has succeeded twice on the identical raw record
\* there is exactly one Skin row and exactly one Item row for it, both calls
\* worked on the same two rows (same ids), and the Item row's updated_at
\* after the second call is later than after the first.
C12_ReprocessIdempotent ==
    \A l \in Listings :
        seen[l].n >= 2 =>
            /\ seen[l].last.skinID = seen[l].prev.skinID
            /\ seen[l].last.itemID = seen[l].prev.itemID
            /\ seen[l].prev.updated_at < seen[l].last.updated_at
            /\ \E r \in skinsTbl : SkinRowsOf(skinsTbl, l.MarketHashName) = {r} /\ r.id = seen[l].last.skinID
            /\ \E r \in itemsTbl : ItemRowsOf(itemsTbl, l.ItemID) = {r} /\ r.id = seen[l].last.itemID

\* The same record was processed twice and the store holds one Skin row and
\* one Item row, the Item row updated after it was created.
C12_Witness ==
    /\ seen[ListingA].n = 2
    /\ Cardinality(skinsTbl) = 1
    /\ \E r \in itemsTbl : itemsTbl = {r} /\ r.created_at < r.updated_at

\* Run w gets an id from InsertSkin in this step.
InsertSkinReturns(w) == run[w].pc = "idle" /\ run'[w].pc = "item"

\* C13: an InsertSkin on a stable name that has a row leaves the row's id,
\* market_hash_name and created_at as they were, gives the mutable fields
\* the new values and updated_at the time of the statement, returns the id
\* returned at first insertion, and adds, removes and changes no other row.
C13_SkinUpsertFrame ==
    [][\A w \in Runs :
           (InsertSkinReturns(w) /\ SkinRowsOf(skinsTbl, run'[w].csgoItem.MarketHashName) # {})
               => LET skin == convertToSkin(run'[w].csgoItem)
                  IN \E r \in skinsTbl, r2 \in skinsTbl' :
                         /\ SkinRowsOf(skinsTbl, skin.MarketHashName) = {r}
                         /\ skinsTbl' \ {r2} = skinsTbl \ {r}
                         /\ r2.id = r.id
                         /\ r2.market_hash_name = r.market_hash_name
                         /\ r2.created_at = r.created_at
                         /\ r2.updated_at = dbNow
                         /\ r2.category = skin.Category /\ r2.sub_category = skin.SubCategory
                         /\ r2.skin_name = skin.SkinName /\ r2.is_stattrak = skin.IsStatTrak
                         /\ r2.quality = skin.Quality /\ r2.icon_url = skin.IconURL
                         /\ FEq(r2.min_float, skin.MinFloat) /\ FEq(r2.max_float, skin.MaxFloat)
                         /\ run'[w].skinID = r.id
                         /\ run'[w].skinID = firstSkinID[skin.MarketHashName]]_vars

\* A Skin row created with one quality was updated to another by a later
\* InsertSkin, which returned the id of the first insertion.
C13_Witness ==
    \E w \in Runs, r \in skinsTbl :
        /\ run[w].pc = "item"
        /\ run[w].csgoItem = ListingAChanged
        /\ r.market_hash_name = ListingAChanged.MarketHashName
        /\ r.quality = MinimalWear
        /\ r.created_at < r.updated_at
        /\ run[w].skinID = r.id
        /\ r.id = firstSkinID[r.market_hash_name]

\* Run w gets an id from InsertItem in this step.
InsertItemReturns(w) == run[w].pc = "item" /\ seen'[run[w].csgoItem].n = seen[run[w].csgoItem].n + 1

UniqueRows ==
    /\ \A r1, r2 \in itemsTbl :
           (r1.marketplace_id = r2.marketplace_id /\ r1.market_item_id = r2.market_item_id) => r1 = r2
    /\ \A r1, r2 \in skinsTbl : r1.market_hash_name = r2.market_hash_name => r1 = r2

ReobservationOverwrites ==
    \A w \in Runs :
        (InsertItemReturns(w) /\ ItemRowsOf(itemsTbl, run[w].csgoItem.ItemID) # {})
            => LET csgoItem == run[w].csgoItem
               IN \E r \in itemsTbl, r2 \in itemsTbl', usdtToIRR \in StoreRates :
                      LET item == convertToItem(csgoItem, run[w].skinID, MarketplaceID, usdtToIRR).item
                      IN /\ ItemRowsOf(itemsTbl, csgoItem.ItemID) = {r}
                         /\ itemsTbl' \ {r2} = itemsTbl \ {r}
                         /\ r2.id = r.id
                         /\ r2.marketplace_id = r.marketplace_id
                         /\ r2.market_item_id = r.market_item_id
                         /\ r2.created_at = r.created_at
                         /\ r.updated_at < r2.updated_at
                         /\ FEq(r2.float, item.Float)
                         /\ r2.stickers = csgoItem.Stickers
                         /\ r2.price = Decimal2(item.Price)
                         /\ r2.price_failed = Decimal2(item.PriceFailed)
                         /\ r2.price_usd = Decimal2(item.PriceUSD)
                         /\ r2.steam_price_usd = Decimal2(item.SteamPriceUSD)

\* C14: the store never holds two Item rows with the same (marketplace_id,
\* market_item_id) nor two Skin rows with the same market_hash_name, and an
\* InsertItem on a listing that has a row overwrites the row's float,
\* stickers and price fields and advances its updated_at while its id, its
\* composite identity and its created_at stay.
C14_OneRowPerIdentity == []UniqueRows /\ [][ReobservationOverwrites]_vars

\* A listing was observed again with another float, other stickers and
\* another price, and its one row holds the new values: 400 Rial, which is
\* 0.00 in the reference currency.
C14_Witness ==
    /\ seen[ListingA].n >= 1
    /\ seen[ListingAChanged].n >= 1
    /\ \E r \in itemsTbl :
           /\ ItemRowsOf(itemsTbl, "a") = {r}
           /\ r.created_at < r.updated_at
           /\ r.stickers = ListingAChanged.Stickers
           /\ FEq(r.float, Frac(5, 100))
           /\ r.price = 400 * 100
           /\ r.price_usd = 0

\* The Item rows a call with the given threshold has to return.
Qualifying(rows, minProfitPercent) ==
    {i \in rows : /\ i.steam_price_usd > 0
                  /\ i.price_usd > 0
                  /\ (i.steam_price_usd - i.price_usd) * 100 >= minProfitPercent * i.price_usd}

\* The prices (acquisition, reference) of the Item rows, in hundredths.
PricePairs == {<<i.price_usd, i.steam_price_usd>> : i \in itemsTbl}

\* This step is a call of findArbitrageOpportunities the store answers.
QueryAnswered == query'.n = query.n + 1 /\ query'.dbOk

\* C18: a call returns no error and one opportunity for each Item row whose
\* reference price is > 0, whose acquisition price is > 0 and whose profit
\* percentage is >= the threshold, with reference - acquisition as profit
\* and that percentage as profit_percent, and nothing else (the empty
\* sequence when no row qualifies); with the rows (100, 115) and (50, 52)
\* and the threshold 10 the result is the first row alone.
C18_ExactlyQualifying ==
    [][QueryAnswered =>
           LET Q == Qualifying(itemsTbl, query'.minProfitPercent)
               rows == query'.rows
           IN /\ ~query'.err
              /\ Len(rows) = Cardinality(Q)
              /\ \E f \in Orderings(Q) :
                     \A k \in 1..Len(rows) :
                         /\ rows[k].buy_price_usd = f[k].price_usd
                         /\ rows[k].sell_price_usd = f[k].steam_price_usd
                         /\ rows[k].profit_usd = f[k].steam_price_usd - f[k].price_usd
                         /\ FEq(rows[k].profit_percent,
                                Frac((f[k].steam_price_usd - f[k].price_usd) * 100, f[k].price_usd))
                         /\ rows[k].float = f[k].float
                         /\ rows[k].stickers = f[k].stickers
              /\ Q = {} => rows = <<>>
              /\ (/\ PricePairs = {<<10000, 11500>>, <<5000, 5200>>}
                  /\ Cardinality(itemsTbl) = 2
                  /\ query'.minProfitPercent = 10)
                     => /\ Len(rows) = 1
                        /\ rows[1].buy_price_usd = 10000
                        /\ rows[1].sell_price_usd = 11500]_vars

\* The store holds the rows (100, 115) and (50, 52) and the call with the
\* threshold 10 returned the first alone, with profit 15 and 15 percent.
C18_Witness ==
    /\ query.n >= 1 /\ query.dbOk /\ ~query.err
    /\ query.minProfitPercent = 10
    /\ PricePairs = {<<10000, 11500>>, <<5000, 5200>>}
    /\ Cardinality(itemsTbl) = 2
    /\ Len(query.rows) = 1
    /\ query.rows[1].profit_usd = 1500
    /\ FEq(query.rows[1].profit_percent, Frac(15, 1))

\* C19: in the sequence a call returned, the profit_percent of every
\* opportunity is >= that of the next one.
C19_DescendingProfit ==
    \A k \in 1..(Len(query.rows) - 1) :
        FLe(query.rows[k + 1].profit_percent, query.rows[k].profit_percent)

\* A call returned two opportunities, the first with the greater percentage.
C19_Witness ==
    /\ Len(query.rows) >= 2
    /\ FLess(query.rows[2].profit_percent, query.rows[1].profit_percent)

\* The listing ids whose last completed InsertItem stored qualifying prices.
CommittedQualifying(minProfitPercent) ==
    {k \in ListingIDs : /\ committed[k].set
                        /\ committed[k].steam_price_usd > 0
                        /\ committed[k].price_usd > 0
                        /\ (committed[k].steam_price_usd - committed[k].price_usd) * 100
                               >= minProfitPercent * committed[k].price_usd}

\* C20: whatever the runs are doing (idle, between the two statements of a
\* processItem, failed), a call returns an error only when the store fails
\* the query, and its result holds exactly the listings whose last completed
\* InsertItem stored qualifying prices, with those prices.
C20_ReflectsCompletedUpserts ==
    [][query'.n = query.n + 1 =>
           /\ query'.err <=> ~query'.dbOk
           /\ query'.dbOk =>
                  LET K == CommittedQualifying(query'.minProfitPercent)
                      rows == query'.rows
                  IN /\ Len(rows) = Cardinality(K)
                     /\ \E f \in Orderings(K) :
                            \A j \in 1..Len(rows) :
                                /\ rows[j].market_hash_name = committed[f[j]].market_hash_name
                                /\ rows[j].buy_price_usd = committed[f[j]].price_usd
                                /\ rows[j].sell_price_usd = committed[f[j]].steam_price_usd]_vars

\* A second call, made while one run had failed and the other was between
\* the two statements of a processItem on a listing observed before,
\* returned, without error, that listing with the prices of the InsertItem
\* that had completed.
C20_Witness ==
    /\ query.n = 2 /\ query.dbOk /\ ~query.err
    /\ query.amidRuns
    /\ seen[ListingA].n = 1
    /\ \E w \in Runs : run[w].pc = "item" /\ run[w].csgoItem = ListingAChanged
    /\ Len(query.rows) = 1
    /\ query.rows[1].buy_price_usd = committed["a"].price_usd
    /\ committed["a"].price_usd = 10000

\* The columns of an Item row that InsertItem writes on insert and on
\* conflict alike.
ItemValues(r) ==
    [skin_id |-> r.skin_id, float |-> r.float, stickers |-> r.stickers, price |-> r.price,
     price_failed |-> r.price_failed, price_usd |-> r.price_usd, steam_price_usd |-> r.steam_price_usd,
     tradeable |-> r.tradeable, is_fast_sell |-> r.is_fast_sell]

\* A run that is about to call processItem is never made to wait, whatever
\* the other run is doing; its InsertItem has no condition but its own
\* InsertSkin (the guard of ProcessItemItem).
RunsNotSerialized == \A w \in Runs : run[w].pc = "idle" => RunMayProceed(w)

\* Each Item row holds the values of the InsertItem that returned last for
\* its listing.
LastWriterWins ==
    \A k \in ListingIDs :
        /\ committed[k].set =>
               \E r \in itemsTbl :
                   /\ ItemRowsOf(itemsTbl, k) = {r}
                   /\ ItemValues(r) = ItemValues(NewItemRow(committed[k].item, 0, 0))
        /\ ~committed[k].set => ItemRowsOf(itemsTbl, k) = {}

ItemsReferToRows ==
    \A i \in itemsTbl :
        /\ \E sk \in skinsTbl : sk.id = i.skin_id
        /\ \E m \in marketplacesTbl : m.id = i.marketplace_id

\* A run is at InsertItem only with the id its own InsertSkin returned, which
\* is the id of the Skin row of the record's stable name.
SkinBeforeItem ==
    \A w \in Runs :
        run[w].pc = "item" =>
            \E sk \in skinsTbl :
                /\ SkinRowsOf(skinsTbl, run[w].csgoItem.MarketHashName) = {sk}
                /\ sk.id = run[w].skinID

\* Right after a processItem call has returned nil, the record's Item row
\* has the id of the Skin row of the record's stable name.
ItemGetsResolvedSkin ==
    \A w \in Runs :
        InsertItemReturns(w) =>
            \E i \in itemsTbl', sk \in skinsTbl' :
                /\ ItemRowsOf(itemsTbl', run[w].csgoItem.ItemID) = {i}
                /\ SkinRowsOf(skinsTbl', run[w].csgoItem.MarketHashName) = {sk}
                /\ i.skin_id = sk.id
                /\ i.skin_id = run[w].skinID
                /\ i.marketplace_id = MarketplaceID

\* C24: processItem upserts the Skin before the Item and gives the Item the
\* id that InsertSkin returned; in every state, under every interleaving of
\* the runs, each Item row's skin_id and marketplace_id are ids of rows of
\* the store, and after a successful processItem the Item's skin_id is the
\* id of the Skin row with the record's market_hash_name.
C24_ItemRefersToResolvedSkin ==
    /\ [](ItemsReferToRows /\ SkinBeforeItem)
    /\ [][ItemGetsResolvedSkin]_vars

\* Two processItem calls resolved the same Skin row, the second by conflict,
\* and the Item written after the second InsertSkin refers to that row.
C24_Witness ==
    /\ Cardinality(skinsTbl) = 1
    /\ \E sk \in skinsTbl, i \in itemsTbl :
           /\ sk.created_at < sk.updated_at
           /\ i.skin_id = sk.id
           /\ sk.updated_at < i.created_at

\* One step of caller p inside GetUSDTtoIRRRate, from RLock to the return.
CallerStep(p) ==
    \/ RLock(p) \/ FirstCheck(p) \/ Lock(p) \/ LockAcquired(p) \/ Recheck(p)
    \/ \E o \in FetchOutcomes : FetchReturn(p, o)

InCall(p) == pc[p] \in {"rlock", "check", "lock", "lockwait", "recheck", "fetching"}

\* C27: under weak fairness of every caller's steps, fetches returning, every
\* call of GetUSDTtoIRRRate that a caller has entered eventually returns,
\* whatever the other callers do: no caller stays behind the readers or a
\* writer for ever, and asking for the write lock after the read lock was
\* released does not deadlock.
C27_EveryCallReturns == \A p \in Callers : InCall(p) ~> pc[p] = "done"

\* Two callers found the cache stale in the same window; one has fetched and
\* returned, and the other, which waited for the write lock behind it, now
\* holds it.
C27_Witness ==
    \E p, q \in Callers :
        /\ p # q
        /\ HasReturned(p) /\ call[p].fetched
        /\ pc[q] = "recheck" /\ call[q].tookLock /\ rwWriter = q
        /\ call[q].check1 = "stale"

\* The rows of the marketplace NewCSGOSkinScraper upserts.
MarketplaceRows == {m \in marketplacesTbl : m.name = CSGOSkinMarketplace.Name}

\* C31: whatever the number and the interleaving of the NewCSGOSkinScraper
\* calls, the store holds one marketplace row named "CSGOSkin.ir" once a
\* call has succeeded and none before, every scraper made holds the id of
\* that row, and every Item row any run wrote refers to it.
C31_MarketplaceUpsertIdempotent ==
    /\ Cardinality(MarketplaceRows) <= 1
    /\ marketplacesTbl = MarketplaceRows
    /\ (\E w \in Runs : scrapers[w].made) <=> MarketplaceRows # {}
    /\ \A w \in Runs : scrapers[w].made => \A m \in MarketplaceRows : scrapers[w].marketplaceID = m.id
    /\ \A w \in Runs : run[w].pc \in {"idle", "item"} => scrapers[w].made
    /\ \A i \in itemsTbl : \A m \in MarketplaceRows : i.marketplace_id = m.id
    /\ itemsTbl # {} => MarketplaceRows # {}

\* Three constructions succeeded, the last one a refresh after an earlier
\* refresh; the row was updated by the later ones, both scrapers hold its
\* id, and both runs have written an Item that refers to it.
C31_Witness ==
    /\ constructions = 3
    /\ \A w \in Runs : scrapers[w].made
    /\ \E m \in MarketplaceRows :
           /\ m.updated_at >= m.created_at + 2
           /\ Cardinality({i \in itemsTbl : i.marketplace_id = m.id}) >= 2
           /\ \A w \in Runs : scrapers[w].marketplaceID = m.id

\* handleExchangeRate run by p has both rates of its response.
Responded(p) == HasReturned(p) /\ call[p].handler = "second"

\* C32 as stated: the two rates of one /api/exchange-rate response agree,
\* irr_to_usd being the inverse GetIRRtoUSDRate gives for the usdt_to_irr
\* of the same response, whatever the other callers, the clock and the
\* fetches of the two lookups do.
C32_ResponseConsistent ==
    \A p \in Callers :
        Responded(p) => FEq(call[p].inv, GetIRRtoUSDRateOf(call[p].usdtToIRR))

\* A processItem call of run w returns after its InsertSkin.
ProcessItemReturns(w) == run[w].pc = "item" /\ run'[w].pc = "idle"

\* The call that returns leaves the Skin row it upserted in the store, and
\* either it wrote the Item and is counted, or it failed and no Item row,
\* count or committed value has changed; with a price that does not parse
\* it failed.
NoRollbackAfterSkin ==
    \A w \in Runs :
        ProcessItemReturns(w) =>
            LET csgoItem == run[w].csgoItem
            IN /\ skinsTbl' = skinsTbl
               /\ \E sk \in skinsTbl' :
                      sk.id = run[w].skinID /\ sk.market_hash_name = csgoItem.MarketHashName
               /\ \/ /\ seen'[csgoItem].n = seen[csgoItem].n + 1
                     /\ ParseFloat(csgoItem.Price).ok
                     /\ ItemRowsOf(itemsTbl', csgoItem.ItemID) # {}
                  \/ /\ itemsTbl' = itemsTbl
                     /\ seen' = seen
                     /\ committed' = committed
               /\ ~ParseFloat(csgoItem.Price).ok => itemsTbl' = itemsTbl /\ seen' = seen

\* While a call is behind its InsertSkin the Skin row is in the store,
\* whatever becomes of the call.
SkinUpsertedBeforeItem ==
    \A w \in Runs :
        run[w].pc = "item" =>
            \E sk \in skinsTbl : sk.id = run[w].skinID /\ sk.market_hash_name = run[w].csgoItem.MarketHashName

\* C33: a record whose processItem fails after the Skin upsert (its price
\* does not parse, or InsertItem fails) keeps its Skin row as upserted; no
\* Item row is created or changed for it and it is not counted.
C33_NoRollbackAfterSkinUpsert == []SkinUpsertedBeforeItem /\ [][NoRollbackAfterSkin]_vars

\* Every call made has returned, the listing with the unparsable price among
\* them: its Skin row is in the store, and there is no Item row and no
\* counted call for its native id.
C33_Witness ==
    /\ \A w \in Runs : run[w].pc = "idle"
    /\ processCalls >= 1
    /\ SkinRowsOf(skinsTbl, ListingBNoPrice.MarketHashName) # {}
    /\ ItemRowsOf(itemsTbl, ListingBNoPrice.ItemID) = {}
    /\ seen[ListingB].n = 0 /\ seen[ListingBNoPrice].n = 0
    /\ ~committed[ListingBNoPrice.ItemID].set

(***************************************************************************)
(* Specifications.  RateSpec runs the callers of the rate cache, IngestSpec *)
(* one FetchItems run.  IngestFairSpec adds that the run keeps taking      *)
(* steps: every page request returns and the goroutine is scheduled.       *)
(* ConvertSpec applies one conversion function to one argument.  StoreSpec *)
(* runs the processItem calls of two overlapping runs against the store,   *)
(* and the arbitrage query.  ExchangeSpec adds handleExchangeRate to the    *)
(* callers of the rate cache, and MarketSpec starts before the scrapers    *)
(* are made and adds NewCSGOSkinScraper to the runs.                       *)
(***************************************************************************)
Init == RateInit /\ IngestInit /\ ConvIdle /\ StoreInit

RateSpec == Init /\ [][RateNext]_vars

\* RateSpec with every caller's goroutine scheduled: a step of
\* GetUSDTtoIRRRate that stays possible is taken, and fetchUSDTtoIRRRate
\* returns.  Entering a new call is not forced.
RateFairSpec == RateSpec /\ \A p \in Callers : WF_vars(CallerStep(p))

ExchangeSpec == Init /\ [][ExchangeNext]_vars

IngestSpec == Init /\ [][IngestNext]_vars

IngestFairSpec == IngestSpec /\ WF_vars(IngestNext)

ConvertInit == RateInit /\ IngestInit /\ ConvInit /\ StoreInit

ConvertSpec == ConvertInit /\ [][ConvNext]_vars

StoreSpec == Init /\ [][StoreNext]_vars

MarketInit == RateInit /\ IngestInit /\ ConvIdle /\ MarketStoreInit

MarketSpec == MarketInit /\ [][MarketNext]_vars

====
